---- MODULE Spec2Model ----
(***************************************************************************)
(* A model of boxdot/message-format: the pattern compiler of lib.rs        *)
(* (insert_placeholders, extract_parts, parse_block and the three          *)
(* parse_*_block functions) and its two renderers, the free functions of   *)
(* lib.rs that MessageFormat::format_impl calls and Formatter of           *)
(* format.rs.                                                              *)
(*                                                                         *)
(* A Rust String is a sequence of one-character strings: "a{N}" is         *)
(* <<"a", "{", "N", "}">>.  The code point U+FDDF of the placeholder token *)
(* is the element FDDF.  A fallible function returns a record whose err    *)
(* field is "" on success and the panic message otherwise.                 *)
(***************************************************************************)
EXTENDS Integers, Sequences, FiniteSets, TLC

VARIABLES
    pattern,           \* MessageFormat.pattern: Option<String>, [some, text]
    initial_literals,  \* MessageFormat.initial_literals: Vec<String>
    parsed_pattern,    \* MessageFormat.parsed_pattern: Vec<Block>
    locale,            \* MessageFormat.locale
    pc,                \* "called" while a call is being made, else "idle"
    call,              \* the last call: its method, ignore_pound and parameters
    outcome,           \* what that call returned, or the panic that ended it
    overflow_checks    \* whether the build checks integer overflow (debug profile)

vars == <<pattern, initial_literals, parsed_pattern, locale, pc, call, outcome,
          overflow_checks>>

----------------------------------------------------------------------------
(* Characters and character classes of the regexes (\s, \w, \d).           *)

FDDF == "U+FDDF"

Letters ==
    {"a", "b", "c", "d", "e", "f", "g", "h", "i", "j", "k", "l", "m", "n",
     "o", "p", "q", "r", "s", "t", "u", "v", "w", "x", "y", "z",
     "A", "B", "C", "D", "E", "F", "G", "H", "I", "J", "K", "L", "M", "N",
     "O", "P", "Q", "R", "S", "T", "U", "V", "W", "X", "Y", "Z"}

DigitChars == <<"0", "1", "2", "3", "4", "5", "6", "7", "8", "9">>

IsDigit(c) == \E i \in 1..10 : DigitChars[i] = c

DigitVal(c) == (CHOOSE i \in 1..10 : DigitChars[i] = c) - 1

IsWord(c) == c \in Letters \/ IsDigit(c) \/ c = "_"

IsSpace(c) == c \in {" ", "\n", "\t"}

----------------------------------------------------------------------------
(* Helpers on strings: what str::contains, str::replace, str::replacen,    *)
(* Vec::join and the integer Display and FromStr impls do.                 *)

Min(a, b) == IF a < b THEN a ELSE b

Abs(n) == IF n < 0 THEN -n ELSE n

\* Tail_from that stops one character early
Tail_from_short(s, i) == SubSeq(s, i, Len(s) - 1)

Tail_from(s, i) == SubSeq(s, i, Len(s))

StartsWithAt(s, i, t) ==
    /\ i + Len(t) - 1 <= Len(s)
    /\ \A k \in 1..Len(t) : s[i + k - 1] = t[k]

\* the least element of a set of positions, or 0 if there is none
MinOrZero(S) == IF S = {} THEN 0 ELSE CHOOSE k \in S : \A j \in S : k <= j

\* index of the first occurrence of t in s at or after i, or 0
FindFrom(s, i, t) == MinOrZero({k \in i..(Len(s) - Len(t) + 1) : StartsWithAt(s, k, t)})

Contains(s, c) == \E i \in 1..Len(s) : s[i] = c

\* str::replacen(from, to, 1)
ReplaceFirst(s, from, to) ==
    LET At(p) == IF p = 0 THEN s
                 ELSE SubSeq(s, 1, p - 1) \o to \o Tail_from(s, p + Len(from))
    IN At(FindFrom(s, 1, from))

\* replacen(c, to, 1) in place of replace(c, to)
ReplaceChar_first(s, c, to) == ReplaceFirst(s, <<c>>, to)

\* str::replace(c, to) for a one-character pattern
RECURSIVE ReplaceChar(_, _, _)
ReplaceChar(s, c, to) ==
    LET At(p) == IF p = 0 THEN s
                 ELSE SubSeq(s, 1, p - 1) \o to \o ReplaceChar(Tail_from(s, p + 1), c, to)
    IN At(FindFrom(s, 1, <<c>>))

\* [String]::join("")
RECURSIVE Join(_)
Join(parts) == IF parts = <<>> THEN <<>> ELSE Head(parts) \o Join(Tail(parts))

\* the decimal digits of a natural number
RECURSIVE NatDigits(_)
NatDigits(n) ==
    IF n < 10 THEN <<DigitChars[n + 1]>>
    ELSE NatDigits(n \div 10) \o <<DigitChars[(n % 10) + 1]>>

\* i64::to_string, usize Display
IntToString(n) == IF n < 0 THEN <<"-">> \o NatDigits(-n) ELSE NatDigits(n)

RECURSIVE DigitsValue(_)
DigitsValue(s) ==
    IF s = <<>> THEN 0
    ELSE 10 * DigitsValue(SubSeq(s, 1, Len(s) - 1)) + DigitVal(s[Len(s)])

AllDigits(s) == s # <<>> /\ \A i \in 1..Len(s) : IsDigit(s[i])

\* TLC's integers are 32 bits wide, so the model scales the widths down and
\* keeps their order: its i64 is 16 bits wide and its i32 is 8 bits wide.
I64Max == 32767
I64Min == -I64Max - 1
I32Max == 127

\* str::parse::<i64>: an optional sign, then digits, within the range
ParseI64(s) ==
    LET InRange(v) == IF v >= I64Min /\ v <= I64Max THEN [ok |-> TRUE, n |-> v]
                      ELSE [ok |-> FALSE, n |-> 0]
        Signed(neg, body) ==
            IF ~AllDigits(body) \/ Len(body) > 9 THEN [ok |-> FALSE, n |-> 0]
            ELSE InRange(IF neg THEN -DigitsValue(body) ELSE DigitsValue(body))
    IN IF s # <<>> /\ s[1] \in {"+", "-"} THEN Signed(s[1] = "-", Tail(s))
       ELSE Signed(FALSE, s)

----------------------------------------------------------------------------
(* ParamValue.  lib.rs has Int and String; param.rs adds Dec.  One record  *)
(* shape serves both: t is the variant, n the integer (for Dec: the value  *)
(* in tenths, the model's fixed-point f64), s the string.                  *)

IntValue(n) == [t |-> "Int", n |-> n, s |-> <<>>]
StrValue(s) == [t |-> "Str", n |-> 0, s |-> s]
DecValue(tenths) == [t |-> "Dec", n |-> tenths, s |-> <<>>]

OTHER_KEY == StrValue(<<"o", "t", "h", "e", "r">>)
ARGUMENT_NAME ==
    StrValue(<<"a", "r", "g", "u", "m", "e", "n", "t", "N", "a", "m", "e">>)
ARGUMENT_OFFSET ==
    StrValue(<<"a", "r", "g", "u", "m", "e", "n", "t", "O", "f", "f", "s", "e", "t">>)

\* param.rs as_integer on a finite f64 given in tenths
as_integer(tenths) ==
    IF tenths % 10 = 0
    THEN [some |-> TRUE, n |-> Min(I64Max, IF tenths \div 10 < I64Min THEN I64Min ELSE tenths \div 10)]
    ELSE [some |-> FALSE, n |-> 0]

\* impl PartialEq for ParamValueInner; on Int and String values it is the
\* derived PartialEq of lib.rs's ParamValue
ParamValue_eq(a, b) ==
    CASE a.t = "Int" /\ b.t = "Int" -> a.n = b.n
      [] a.t = "Dec" /\ b.t = "Dec" -> a.n = b.n
      [] a.t = "Str" /\ b.t = "Str" -> a.s = b.s
      [] a.t = "Int" /\ b.t = "Dec" -> as_integer(b.n) = [some |-> TRUE, n |-> a.n]
      [] a.t = "Dec" /\ b.t = "Int" -> as_integer(a.n) = [some |-> TRUE, n |-> b.n]
      [] OTHER -> FALSE

\* impl Hash for ParamValueInner with the branch for integral decimals left
\* out: a Dec always hashes its float
hash_plain(v) ==
    CASE v.t = "Int" -> [of |-> "i64", n |-> v.n, s |-> <<>>]
      [] v.t = "Dec" -> [of |-> "f64", n |-> v.n, s |-> <<>>]
      [] v.t = "Str" -> [of |-> "str", n |-> 0, s |-> v.s]

\* impl Hash for ParamValueInner: what the value feeds to the hasher, which
\* stands for the hash (equal input, equal hash); on Int and String values it
\* agrees with the derived Hash of lib.rs's ParamValue
hash(v) ==
    LET Dec(a_int) == IF a_int.some THEN [of |-> "i64", n |-> a_int.n, s |-> <<>>]
                      ELSE [of |-> "f64", n |-> v.n, s |-> <<>>]
    IN CASE v.t = "Int" -> [of |-> "i64", n |-> v.n, s |-> <<>>]
         [] v.t = "Dec" -> Dec(as_integer(v.n))
         [] v.t = "Str" -> [of |-> "str", n |-> 0, s |-> v.s]

----------------------------------------------------------------------------
(* The literal protector: placeholder, build_placeholder and               *)
(* insert_placeholders.                                                    *)

\* "_\u{FDDF}_{idx}_"
placeholder(idx) == <<"_", FDDF, "_">> \o NatDigits(idx) \o <<"_">>

\* pushes text and returns the token of its index
build_placeholder(literals, text) ==
    [literals |-> Append(literals, text), token |-> placeholder(Len(literals))]

\* DOUBLE_APOSTROPHE_RE.replace_all: every non-overlapping '' from the left;
\* i is where the search resumes, out the text produced so far, p a match
RECURSIVE ReplaceDoubleApostrophes(_, _, _, _)
ReplaceDoubleApostrophes(s, i, literals, out) ==
    LET Put(p, b) ==
            ReplaceDoubleApostrophes(s, p + 2, b.literals,
                                     out \o SubSeq(s, i, p - 1) \o b.token)
        At(p) == IF p = 0 THEN [text |-> out \o Tail_from(s, i), literals |-> literals]
                 ELSE Put(p, build_placeholder(literals, <<"'">>))
    IN At(FindFrom(s, i, <<"'", "'">>))

\* the end of the shortest match of .*?' from position i: the first quote at
\* or after i with no newline before it, or 0
ClosingQuote(s, i) ==
    LET At(q) == IF q # 0 /\ s[q] = "'" THEN q ELSE 0
    IN At(MinOrZero({k \in i..Len(s) : s[k] \in {"'", "\n"}}))

\* a quote, any character and a quote later
LiteralAt_any(s, k) ==
    /\ s[k] = "'"
    /\ k + 1 <= Len(s)
    /\ ClosingQuote(s, k + 2) # 0

\* whether '([{}#].*?)' matches at position k
LiteralAt(s, k) ==
    /\ s[k] = "'"
    /\ k + 1 <= Len(s)
    /\ s[k + 1] \in {"{", "}", "#"}
    /\ ClosingQuote(s, k + 2) # 0

\* LITERAL_RE.replace_all: '([{}#].*?)' from the left, the capture protected;
\* p is where a match starts and q where it ends
RECURSIVE ReplaceLiterals(_, _, _, _)
ReplaceLiterals(s, i, literals, out) ==
    LET Put(p, q, b) ==
            ReplaceLiterals(s, q + 1, b.literals, out \o SubSeq(s, i, p - 1) \o b.token)
        Close(p, q) == Put(p, q, build_placeholder(literals, SubSeq(s, p + 1, q - 1)))
        At(p) == IF p = 0 THEN [text |-> out \o Tail_from(s, i), literals |-> literals]
                 ELSE Close(p, ClosingQuote(s, p + 2))
    IN At(MinOrZero({k \in i..Len(s) : LiteralAt(s, k)}))

insert_placeholders(text) ==
    LET Second(first) == ReplaceLiterals(first.text, 1, first.literals, <<>>)
    IN Second(ReplaceDoubleApostrophes(text, 1, <<>>, <<>>))

----------------------------------------------------------------------------
(* The segment tokenizer.                                                  *)

ElementTypeAndVal(typ, value) == [typ |-> typ, value |-> value]

NoMatchingOpen == "No matching { for }"
Mismatched == "There are mismatched { or } in the pattern"

\* the loop over BRACES_RE.find_iter and what follows it; i is where the
\* search for the next brace resumes, prev_pos the start of the pending
\* segment (both from 1) and pos the brace found
RECURSIVE extract_parts_from(_, _, _, _, _)
extract_parts_from(text, i, prev_pos, brace_stack, results) ==
    LET At(pos) ==
            IF pos = 0
            THEN IF brace_stack # <<>> THEN [err |-> Mismatched, val |-> <<>>]
                 ELSE [err |-> "",
                       val |-> IF prev_pos <= Len(text)
                               THEN Append(results,
                                        ElementTypeAndVal("String",
                                                          Tail_from(text, prev_pos)))
                               ELSE results]
            ELSE IF text[pos] = "}"
            THEN IF brace_stack = <<>> THEN [err |-> NoMatchingOpen, val |-> <<>>]
                 ELSE IF Len(brace_stack) = 1
                 THEN extract_parts_from(text, pos + 1, pos + 1, <<>>,
                          Append(results,
                              ElementTypeAndVal("Block", SubSeq(text, prev_pos, pos - 1))))
                 ELSE extract_parts_from(text, pos + 1, prev_pos,
                          SubSeq(brace_stack, 1, Len(brace_stack) - 1), results)
            ELSE IF brace_stack = <<>>
            THEN extract_parts_from(text, pos + 1, pos + 1, <<"{">>,
                     IF prev_pos <= pos - 1
                     THEN Append(results,
                              ElementTypeAndVal("String",
                                                SubSeq(text, prev_pos, pos - 1)))
                     ELSE results)
            ELSE extract_parts_from(text, pos + 1, prev_pos,
                                    Append(brace_stack, "{"), results)
    IN At(MinOrZero({k \in i..Len(text) : text[k] \in {"{", "}"}}))

\* extract_parts without the check of the stack after the loop
extract_parts_unchecked(text) ==
    LET Result(r) == IF r.err = Mismatched THEN [err |-> "", val |-> <<>>] ELSE r
    IN Result(extract_parts_from(text, 1, 1, <<>>, <<>>))

\* extract_parts without the push of the substring after the last brace
extract_parts_no_tail(text) ==
    LET Result(r) ==
            IF r.err = "" /\ r.val # <<>> /\ r.val[Len(r.val)].typ = "String"
            THEN [err |-> "", val |-> SubSeq(r.val, 1, Len(r.val) - 1)]
            ELSE r
    IN Result(extract_parts_from(text, 1, 1, <<>>, <<>>))

extract_parts(text) == extract_parts_from(text, 1, 1, <<>>, <<>>)

----------------------------------------------------------------------------
(* The header regexes and parse_block_type.                                *)

\* the first position at or after i that holds no whitespace (\s*)
RECURSIVE SkipSpaces(_, _)
SkipSpaces(s, i) == IF i <= Len(s) /\ IsSpace(s[i]) THEN SkipSpaces(s, i + 1) ELSE i

\* the first position at or after i that holds no word character (\w*)
RECURSIVE SkipWord(_, _)
SkipWord(s, i) == IF i <= Len(s) /\ IsWord(s[i]) THEN SkipWord(s, i + 1) ELSE i

\* the first position at or after i that holds no digit (\d*)
RECURSIVE SkipDigits(_, _)
SkipDigits(s, i) == IF i <= Len(s) /\ IsDigit(s[i]) THEN SkipDigits(s, i + 1) ELSE i

NoMatch == [ok |-> FALSE, name |-> <<>>, end |-> 0]

\* ^\s*(\w+)\s*,\s*KEYWORD\s*,  : the capture and the position after the match
\* a is where the name starts, b where it ends, c, d and e where the first
\* comma, the keyword and the second comma must be
MatchHeader(s, keyword) ==
    LET AtE(a, b, e) == IF e <= Len(s) /\ s[e] = ","
                        THEN [ok |-> TRUE, name |-> SubSeq(s, a, b - 1), end |-> e + 1]
                        ELSE NoMatch
        AtD(a, b, d) == IF StartsWithAt(s, d, keyword)
                        THEN AtE(a, b, SkipSpaces(s, d + Len(keyword)))
                        ELSE NoMatch
        AtC(a, b, c) == IF c <= Len(s) /\ s[c] = ","
                        THEN AtD(a, b, SkipSpaces(s, c + 1))
                        ELSE NoMatch
        AtB(a, b) == IF b > a THEN AtC(a, b, SkipSpaces(s, b)) ELSE NoMatch
        AtA(a) == AtB(a, SkipWord(s, a))
    IN AtA(SkipSpaces(s, 1))

KwPlural == <<"p", "l", "u", "r", "a", "l">>
KwOrdinal == <<"s", "e", "l", "e", "c", "t", "o", "r", "d", "i", "n", "a", "l">>
KwSelect == <<"s", "e", "l", "e", "c", "t">>
KwOffset == <<"o", "f", "f", "s", "e", "t", ":">>

\* PLURAL_BLOCK_RE: the header, then the optional group (?:\s*offset:(\d+))?
\* ds is where the digits of the offset start and de where they end
PLURAL_BLOCK_RE(s) ==
    LET NoOffset(h) == [ok |-> h.ok, name |-> h.name, end |-> h.end,
                        has_offset |-> FALSE, offset |-> <<>>]
        Digits(h, ds, de) ==
            IF de > ds
            THEN [ok |-> TRUE, name |-> h.name, end |-> de, has_offset |-> TRUE,
                  offset |-> SubSeq(s, ds, de - 1)]
            ELSE NoOffset(h)
        Offset(h, o) ==
            IF StartsWithAt(s, o, KwOffset)
            THEN Digits(h, o + Len(KwOffset), SkipDigits(s, o + Len(KwOffset)))
            ELSE NoOffset(h)
        Header(h) == IF h.ok THEN Offset(h, SkipSpaces(s, h.end)) ELSE NoOffset(h)
    IN Header(MatchHeader(s, KwPlural))

ORDINAL_BLOCK_RE(s) == MatchHeader(s, KwOrdinal)

SELECT_BLOCK_RE(s) == MatchHeader(s, KwSelect)

\* ^\s*\w
SIMPLE_RE(s) ==
    LET At(a) == a <= Len(s) /\ IsWord(s[a]) IN At(SkipSpaces(s, 1))

\* parse_block_type that tries SIMPLE_RE first
parse_block_type_simple_first(value) ==
    IF SIMPLE_RE(value) THEN "Simple"
    ELSE IF PLURAL_BLOCK_RE(value).ok THEN "Plural"
    ELSE IF ORDINAL_BLOCK_RE(value).ok THEN "Ordinal"
    ELSE IF SELECT_BLOCK_RE(value).ok THEN "Select"
    ELSE "Unknown"

parse_block_type(value) ==
    IF PLURAL_BLOCK_RE(value).ok THEN "Plural"
    ELSE IF ORDINAL_BLOCK_RE(value).ok THEN "Ordinal"
    ELSE IF SELECT_BLOCK_RE(value).ok THEN "Select"
    ELSE IF SIMPLE_RE(value) THEN "Simple"
    ELSE "Unknown"

----------------------------------------------------------------------------
(* Option keys.                                                            *)

\* WHITESPACES_RE.replace_all(key, "")
RECURSIVE StripWhitespace(_)
StripWhitespace(s) ==
    IF s = <<>> THEN <<>>
    ELSE (IF IsSpace(Head(s)) THEN <<>> ELSE <<Head(s)>>) \o StripWhitespace(Tail(s))

\* KV_RE.replace_all(key, caps[1]) with KV_RE = \s*=?(\w+)\s*
RECURSIVE KvReplace(_, _, _)
KvReplace(s, i, out) ==
    IF i > Len(s) THEN out
    ELSE LET Word(b, c) ==
                IF c > b
                THEN KvReplace(s, SkipSpaces(s, c), out \o SubSeq(s, b, c - 1))
                ELSE KvReplace(s, i + 1, Append(out, s[i]))
             Equals(b) == Word(b, SkipWord(s, b))
             Spaces(a) == Equals(IF a <= Len(s) /\ s[a] = "=" THEN a + 1 ELSE a)
         IN Spaces(SkipSpaces(s, i))

\* match key.parse::<i64>() { Ok(num) => num.into(), Err(_) => key.into() }
KeyValue(key) ==
    LET Parsed(n) == IF n.ok THEN IntValue(n.n) ELSE StrValue(key)
    IN Parsed(ParseI64(key))

select_key(key) == KeyValue(StripWhitespace(key))

plural_key(key) == KeyValue(KvReplace(key, 1, <<>>))

----------------------------------------------------------------------------
(* Blocks and the option table.  A Block is a record: typ is the variant,  *)
(* value the string of a String or Simple block, map the HashMap of a      *)
(* Select, Plural or Ordinal block as a sequence of [key, val] entries     *)
(* with distinct keys (the code never iterates over a map).                *)

StringBlock(value) == [typ |-> "String", value |-> value, map |-> <<>>]
\* Block::Simple of the segment without its whitespace
SimpleBlock_stripped(value) ==
    [typ |-> "Simple", value |-> StripWhitespace(value), map |-> <<>>]
SimpleBlock(value) == [typ |-> "Simple", value |-> value, map |-> <<>>]
ChoiceBlock(typ, map) == [typ |-> typ, value |-> <<>>, map |-> map]

\* HashMap::get: the index of the entry whose key has the hash of k and
\* equals k, or 0
RECURSIVE MapIndexFrom(_, _, _)
MapIndexFrom(map, k, i) ==
    IF i > Len(map) THEN 0
    ELSE IF hash(map[i].key) = hash(k) /\ ParamValue_eq(map[i].key, k) THEN i
    ELSE MapIndexFrom(map, k, i + 1)

MapIndex(map, k) == MapIndexFrom(map, k, 1)

\* contains_key with the test on the key left out
contains_key_always(map, k) == TRUE

contains_key(map, k) == MapIndex(map, k) # 0

\* HashMap::insert: the value of an equal key is replaced
MapInsert(map, k, v) ==
    LET At(i) == IF i = 0 THEN Append(map, [key |-> k, val |-> v])
                 ELSE [map EXCEPT ![i] = [key |-> map[i].key, val |-> v]]
    IN At(MapIndex(map, k))

----------------------------------------------------------------------------
(* The block parser.                                                       *)

UnknownBlockType == "unknown block type for pattern"
AssertedBlockType == "assert_eqed block type"
OffsetUnwrap == "called Result::unwrap() on an Err value: ParseIntError"

MissingElement(kind) ==
    CASE kind = "Select" -> "missing or invalid select value element"
      [] kind = "Plural" -> "missing or invalid plural element"
      [] kind = "Ordinal" -> "missing or invalid ordinal value element"

MissingOther(kind) ==
    CASE kind = "Select" -> "missing other key in select statement"
      [] kind = "Plural" -> "missing other key in plural statement"
      [] kind = "Ordinal" -> "missing other key in ordinal statement"

Failed(msg) == [err |-> msg, val |-> <<>>]
Done(val) == [err |-> "", val |-> val]

\* ParseOffset that reads every offset as 0
ParseOffset_zero(digits) == [ok |-> TRUE, n |-> 0]

\* offset.as_str().parse().unwrap() into `let mut argument_offset = 0`, an i32
ParseOffset(digits) ==
    LET InRange(v) == IF v <= I32Max THEN [ok |-> TRUE, n |-> v]
                      ELSE [ok |-> FALSE, n |-> 0]
    IN IF Len(digits) <= 9 THEN InRange(DigitsValue(digits))
       ELSE [ok |-> FALSE, n |-> 0]

RECURSIVE parse_block(_)
RECURSIVE parse_block_parts(_, _, _)
RECURSIVE parse_options(_, _, _, _)
RECURSIVE parse_choice(_, _, _)
RECURSIVE parse_select_block(_)
RECURSIVE parse_plural_block(_)
RECURSIVE parse_ordinal_block(_)

\* the "looking for (key block)+ sequence" loop of the three parse_*_block
\* functions, from index pos (from 1) of parts, and the assertion after it
parse_options(parts, pos, result, kind) ==
    LET Insert(key, value) ==
            IF value.err # "" THEN Failed(value.err)
            ELSE parse_options(parts, pos + 2, MapInsert(result, key, value.val), kind)
    IN IF pos > Len(parts)
       THEN IF contains_key(result, OTHER_KEY) THEN Done(result)
            ELSE Failed(MissingOther(kind))
       ELSE IF pos + 1 > Len(parts) THEN Failed(MissingElement(kind))
       ELSE IF parts[pos + 1].typ = "String" THEN Failed(AssertedBlockType)
       ELSE Insert(IF kind = "Select" THEN select_key(parts[pos].value)
                   ELSE plural_key(parts[pos].value),
                   parse_block(parts[pos + 1].value))

\* the part of the three functions after the header is stripped: result
\* holds the entries made from the header, rest is the text after it
parse_choice(result, rest, kind) ==
    LET Parts(parts) == IF parts.err # "" THEN Failed(parts.err)
                        ELSE parse_options(parts.val, 1, result, kind)
    IN Parts(extract_parts(rest))

parse_select_block(text) ==
    LET Header(h) ==
            parse_choice(<<[key |-> ARGUMENT_NAME, val |-> <<StringBlock(h.name)>>]>>,
                         Tail_from(text, h.end), "Select")
    IN Header(SELECT_BLOCK_RE(text))

parse_plural_block(text) ==
    LET Offset(h, off) ==
            IF ~off.ok THEN Failed(OffsetUnwrap)
            ELSE parse_choice(
                     <<[key |-> ARGUMENT_NAME, val |-> <<StringBlock(h.name)>>],
                       [key |-> ARGUMENT_OFFSET,
                        val |-> <<StringBlock(IntToString(off.n))>>]>>,
                     Tail_from(text, h.end), "Plural")
        Header(h) == Offset(h, IF h.has_offset THEN ParseOffset(h.offset)
                               ELSE [ok |-> TRUE, n |-> 0])
    IN Header(PLURAL_BLOCK_RE(text))

parse_ordinal_block(text) ==
    LET Header(h) ==
            parse_choice(<<[key |-> ARGUMENT_NAME, val |-> <<StringBlock(h.name)>>],
                           [key |-> ARGUMENT_OFFSET, val |-> <<StringBlock(<<"0">>)>>]>>,
                         Tail_from(text, h.end), "Ordinal")
    IN Header(ORDINAL_BLOCK_RE(text))

\* the loop of parse_block over the parts, from index i (from 1)
parse_block_parts(parts, i, result) ==
    LET Choice(block_type, map) ==
            IF map.err # "" THEN Failed(map.err)
            ELSE parse_block_parts(parts, i + 1,
                     Append(result, ChoiceBlock(block_type, map.val)))
        Typed(part, block_type) ==
            CASE block_type = "Select" -> Choice(block_type, parse_select_block(part.value))
              [] block_type = "Plural" -> Choice(block_type, parse_plural_block(part.value))
              [] block_type = "Ordinal" -> Choice(block_type, parse_ordinal_block(part.value))
              [] block_type = "Simple" ->
                   parse_block_parts(parts, i + 1, Append(result, SimpleBlock(part.value)))
              [] OTHER -> Failed(UnknownBlockType)
    IN IF i > Len(parts) THEN Done(result)
       ELSE IF parts[i].typ = "String"
       THEN parse_block_parts(parts, i + 1, Append(result, StringBlock(parts[i].value)))
       ELSE Typed(parts[i], parse_block_type(parts[i].value))

parse_block(text) ==
    LET Parts(parts) == IF parts.err # "" THEN Failed(parts.err)
                        ELSE parse_block_parts(parts.val, 1, <<>>)
    IN Parts(extract_parts(text))

----------------------------------------------------------------------------
(* The collaborators of the icu crates, for the locales of the tests:      *)
(* PluralRules::category_for with the CLDR cardinal rules and              *)
(* FixedDecimalFormatter::format_to_string.  A number is given in tenths   *)
(* (15 is 1.5), which is how the model keeps an f64; an i64 n is 10 * n.   *)

Locales == {"en-US", "sr", "ar-DZ"}

category_for(loc, tenths) ==
    LET whole == tenths % 10 = 0
        i == tenths \div 10
        f == tenths % 10
    IN CASE loc = "en-US" -> IF whole /\ i = 1 THEN "One" ELSE "Other"
         [] loc = "sr" ->
              IF whole
              THEN IF i % 10 = 1 /\ i % 100 # 11 THEN "One"
                   ELSE IF i % 10 \in 2..4 /\ i % 100 \notin 12..14 THEN "Few"
                   ELSE "Other"
              ELSE IF f = 1 THEN "One"
                   ELSE IF f \in 2..4 THEN "Few"
                   ELSE "Other"
         [] loc = "ar-DZ" ->
              IF ~whole THEN "Other"
              ELSE IF i = 0 THEN "Zero"
              ELSE IF i = 1 THEN "One"
              ELSE IF i = 2 THEN "Two"
              ELSE IF i % 100 \in 3..10 THEN "Few"
              ELSE IF i % 100 \in 11..99 THEN "Many"
              ELSE "Other"

GroupSeparator(loc) == IF loc = "en-US" THEN "," ELSE "."
DecimalSeparator(loc) == IF loc = "en-US" THEN "." ELSE ","

\* the digits of a natural number in groups of three
RECURSIVE Grouped(_, _)
Grouped(n, sep) ==
    IF n < 1000 THEN NatDigits(n)
    ELSE Grouped(n \div 1000, sep) \o <<sep>>
         \o <<DigitChars[((n \div 100) % 10) + 1], DigitChars[((n \div 10) % 10) + 1],
              DigitChars[(n % 10) + 1]>>

format_to_string(loc, tenths) ==
    LET a == Abs(tenths)
    IN (IF tenths < 0 THEN <<"-">> ELSE <<>>)
       \o Grouped(a \div 10, GroupSeparator(loc))
       \o (IF a % 10 = 0 THEN <<>> ELSE <<DecimalSeparator(loc), DigitChars[(a % 10) + 1]>>)

\* f64::to_string of a finite value
F64ToString(tenths) ==
    LET a == Abs(tenths)
    IN (IF tenths < 0 THEN <<"-">> ELSE <<>>) \o NatDigits(a \div 10)
       \o (IF a % 10 = 0 THEN <<>> ELSE <<".", DigitChars[(a % 10) + 1]>>)

\* str::parse::<f64> of a decimal numeral with at most one fractional digit
\* that is not a trailing zero: [+-] digits [. digits]
ParseF64(s) ==
    LET Shape(neg, body, ie, ip, fp) ==
            IF /\ ie > Len(body) \/ body[ie] = "."
               /\ \A k \in 1..Len(fp) : IsDigit(fp[k])
               /\ Len(ip) + Len(fp) > 0
               /\ Len(ip) <= 8
               /\ \A k \in 2..Len(fp) : fp[k] = "0"
            THEN [ok |-> TRUE,
                  x |-> (IF neg THEN -1 ELSE 1)
                        * (10 * DigitsValue(ip) + (IF fp = <<>> THEN 0 ELSE DigitVal(fp[1])))]
            ELSE [ok |-> FALSE, x |-> 0]
        Split(neg, body, ie) ==
            Shape(neg, body, ie, SubSeq(body, 1, ie - 1),
                  IF ie <= Len(body) THEN Tail_from(body, ie + 1) ELSE <<>>)
        Signed(neg, body) == Split(neg, body, SkipDigits(body, 1))
    IN IF s # <<>> /\ s[1] \in {"+", "-"} THEN Signed(s[1] = "-", Tail(s))
       ELSE Signed(FALSE, s)

----------------------------------------------------------------------------
(* Rendering.  The state threaded through a render is a record: err the    *)
(* panic message or "", result the Vec<String> being filled, literals the  *)
(* working literal table, and log, which is not in the code: one entry per *)
(* Select, Plural or Ordinal block that chose a branch, in the order the   *)
(* blocks finish.                                                          *)

UndefinedParameter ==
    <<"U", "n", "d", "e", "f", "i", "n", "e", "d", " ",
      "p", "a", "r", "a", "m", "e", "t", "e", "r", " ", "-", " ">>
InvalidParameter ==
    <<"I", "n", "v", "a", "l", "i", "d", " ",
      "p", "a", "r", "a", "m", "e", "t", "e", "r", " ", "-", " ">>
InvalidOffset ==
    <<"I", "n", "v", "a", "l", "i", "d", " ", "o", "f", "f", "s", "e", "t", " ", "-", " ">>

InvalidArgumentName == "invalid argument name"
InvalidArgumentOffset == "invalid argument offset"
InvalidSelectOption == "Invalid option or missing other option for select block"
InvalidPluralOption == "Invalid option or missing other option for plural block"
NotAllPounds == "not all # were replaced"
SubtractOverflow == "attempt to subtract with overflow"
NegateOverflow == "attempt to negate with overflow"
TryFromIntError == "called Result::unwrap() on an Err value: TryFromIntError(())"

\* the i64 that a wrapping operation leaves for the exact result x
Wrap(x) == ((x - I64Min) % (I64Max - I64Min + 1)) + I64Min

Push(st, text) == [st EXCEPT !.result = Append(st.result, text)]
Panic(st, msg) == [st EXCEPT !.err = msg]

\* the log entry of a block that chose the option at key of its table
\* options: value is the runtime value, num its number, offset the offset and
\* operand the argument plural_selector was called with (-1 if it was not
\* called), all three in tenths; plural is the text of the branch before
\* pound substitution and pushed after it
LogEntry(kind, name, value, num, offset, exact, operand, options, key, plural, pushed) ==
    [kind |-> kind, name |-> name, value |-> value, num |-> num, offset |-> offset,
     exact |-> exact, operand |-> operand, options |-> options, key |-> key,
     plural |-> plural, pushed |-> pushed]

\* parsed_blocks.get(key).and_then(|b| b.first()) matched against
\* Some(Block::String(_))
FirstString(map, key) ==
    LET At(i) == IF i # 0 /\ map[i].val # <<>> /\ map[i].val[1].typ = "String"
                 THEN [some |-> TRUE, value |-> map[i].val[1].value]
                 ELSE [some |-> FALSE, value |-> <<>>]
    IN At(MapIndex(map, key))

\* parsed_blocks.get(a).or_else(|| parsed_blocks.get(&OTHER)): an index or 0
GetOrOther(map, a) ==
    LET Or(i) == IF i # 0 THEN i ELSE MapIndex(map, OTHER_KEY)
    IN Or(MapIndex(map, a))

\* lib.rs plural_rules_select: the key text for the category of n
plural_rules_select(n, loc) ==
    LET Key(c) == CASE c = "Zero" -> <<"z", "e", "r", "o">>
                    [] c = "One" -> <<"o", "n", "e">>
                    [] c = "Two" -> <<"t", "w", "o">>
                    [] c = "Few" -> <<"f", "e", "w">>
                    [] c = "Many" -> <<"m", "a", "n", "y">>
                    [] c = "Other" -> <<"m", "a", "n", "y">>
    IN Key(category_for(loc, 10 * n))

ordinal_rules_select(n, loc) == plural_rules_select(n, loc)

\* diff with the subtraction left out
diff_raw(plural_value, argument_offset) == plural_value

\* let diff = plural_value - argument_offset
diff(plural_value, argument_offset) == plural_value - argument_offset

\* exact_match that never finds an entry
exact_match_never(parsed_blocks, value) == 0

\* parsed_blocks.get(&named_parameters[argument_name]): an index or 0
exact_match(parsed_blocks, value) == MapIndex(parsed_blocks, value)

\* format_simple_placeholder that pushes nothing for a missing parameter
format_simple_placeholder_silent(loc, param, named_parameters, st) ==
    LET Store(value) == [Push(st, placeholder(Len(st.literals)))
                            EXCEPT !.literals = Append(st.literals, value)]
        Value(v) == Store(IF v.t = "Int" THEN format_to_string(loc, 10 * v.n) ELSE v.s)
    IN IF param \notin DOMAIN named_parameters
       THEN st
       ELSE Value(named_parameters[param])

format_simple_placeholder(loc, param, named_parameters, st) ==
    LET Store(value) == [Push(st, placeholder(Len(st.literals)))
                            EXCEPT !.literals = Append(st.literals, value)]
        Value(v) == Store(IF v.t = "Int" THEN format_to_string(loc, 10 * v.n) ELSE v.s)
    IN IF param \notin DOMAIN named_parameters
       THEN Push(st, UndefinedParameter \o param)
       ELSE Value(named_parameters[param])

RECURSIVE format_block(_, _, _, _, _, _)
RECURSIVE format_select_block(_, _, _, _, _)
RECURSIVE format_plural_ordinal_block(_, _, _, _, _, _)

format_select_block(loc, parsed_blocks, named_parameters, ignore_pound, st) ==
    LET Logged(name, param, option, inner) ==
            IF inner.err # "" THEN inner
            ELSE [inner EXCEPT !.log = Append(inner.log,
                     LogEntry("Select", name, param, 0, 0, FALSE, -1, parsed_blocks,
                              parsed_blocks[option].key, <<>>, <<>>))]
        Option(name, param, option) ==
            IF option = 0 THEN Panic(st, InvalidSelectOption)
            ELSE Logged(name, param, option,
                        format_block(loc, parsed_blocks[option].val, 1, named_parameters,
                                     ignore_pound, st))
        Param(name, param) == Option(name, param, GetOrOther(parsed_blocks, param))
        Name(argument_name) ==
            IF ~argument_name.some THEN Panic(st, InvalidArgumentName)
            ELSE IF argument_name.value \notin DOMAIN named_parameters
            THEN Push(st, UndefinedParameter \o argument_name.value)
            ELSE Param(argument_name.value, named_parameters[argument_name.value])
    IN Name(FirstString(parsed_blocks, ARGUMENT_NAME))

\* kind is "Plural" or "Ordinal": which of plural_rules_select and
\* ordinal_rules_select the caller passed as plural_selector
format_plural_ordinal_block(loc, parsed_blocks, named_parameters, kind, ignore_pound, st) ==
    LET Pushed(name, v, offset, d, operand, option, inner, plural, pushed) ==
            [err |-> "",
             result |-> Append(st.result, pushed),
             literals |-> inner.literals,
             log |-> Append(inner.log,
                 LogEntry(kind, name, v, 10 * v.n, 10 * offset, operand = -1,
                          IF operand = -1 THEN -1 ELSE 10 * operand, parsed_blocks,
                          parsed_blocks[option].key, plural, pushed))]
        Joined(name, v, offset, d, operand, option, inner, plural) ==
            Pushed(name, v, offset, d, operand, option, inner, plural,
                   IF ignore_pound THEN plural
                   ELSE ReplaceChar(plural, "#", format_to_string(loc, 10 * d)))
        Inner(name, v, offset, d, operand, option, inner) ==
            IF inner.err # "" THEN [inner EXCEPT !.result = st.result]
            ELSE Joined(name, v, offset, d, operand, option, inner, Join(inner.result))
        Option(name, v, offset, d, operand, option) ==
            IF option = 0 THEN Panic(st, InvalidPluralOption)
            ELSE Inner(name, v, offset, d, operand, option,
                       format_block(loc, parsed_blocks[option].val, 1, named_parameters,
                                    ignore_pound,
                                    [err |-> "", result |-> <<>>, literals |-> st.literals,
                                     log |-> st.log]))
        Item(name, v, offset, d, operand, item) ==
            Option(name, v, offset, d, operand, GetOrOther(parsed_blocks, StrValue(item)))
        Selector(name, v, offset, d, operand) ==
            Item(name, v, offset, d, operand,
                 IF kind = "Plural" THEN plural_rules_select(operand, loc)
                 ELSE ordinal_rules_select(operand, loc))
        Exact(name, v, offset, d, exact) ==
            IF exact # 0 THEN Option(name, v, offset, d, -1, exact)
            ELSE IF d = I64Min
            THEN Panic(st, IF overflow_checks THEN NegateOverflow ELSE TryFromIntError)
            ELSE Selector(name, v, offset, d, Abs(d))
        Diff(name, v, offset, d) ==
            IF overflow_checks /\ (d < I64Min \/ d > I64Max)
            THEN Panic(st, SubtractOverflow)
            ELSE Exact(name, v, offset, Wrap(d), exact_match(parsed_blocks, v))
        Offset(name, v, text, offset) ==
            IF ~offset.ok THEN Push(st, InvalidOffset \o text)
            ELSE Diff(name, v, offset.n, diff(v.n, offset.n))
        Value(name, text, v) ==
            IF v.t # "Int" THEN Push(st, InvalidParameter \o name)
            ELSE Offset(name, v, text, ParseI64(text))
        Names(argument_name, argument_offset) ==
            IF ~argument_name.some THEN Panic(st, InvalidArgumentName)
            ELSE IF ~argument_offset.some THEN Panic(st, InvalidArgumentOffset)
            ELSE IF argument_name.value \notin DOMAIN named_parameters
            THEN Push(st, UndefinedParameter \o argument_name.value)
            ELSE Value(argument_name.value, argument_offset.value,
                       named_parameters[argument_name.value])
    IN Names(FirstString(parsed_blocks, ARGUMENT_NAME),
             FirstString(parsed_blocks, ARGUMENT_OFFSET))

\* the loop of format_block over parsed_blocks, from index i (from 1)
format_block(loc, parsed_blocks, i, named_parameters, ignore_pound, st) ==
    LET Block(b) ==
            CASE b.typ = "String" -> Push(st, b.value)
              [] b.typ = "Simple" ->
                   format_simple_placeholder(loc, b.value, named_parameters, st)
              [] b.typ = "Select" ->
                   format_select_block(loc, b.map, named_parameters, ignore_pound, st)
              [] b.typ \in {"Plural", "Ordinal"} ->
                   format_plural_ordinal_block(loc, b.map, named_parameters, b.typ,
                                               ignore_pound, st)
    IN IF i > Len(parsed_blocks) \/ st.err # "" THEN st
       ELSE format_block(loc, parsed_blocks, i + 1, named_parameters, ignore_pound,
                         Block(parsed_blocks[i]))

\* RestoreLiterals with an if let in place of the while let: one entry is
\* popped and restored
RestoreLiterals_once(message, literals) ==
    IF literals = <<>> THEN message
    ELSE ReplaceFirst(message, placeholder(Len(literals) - 1), literals[Len(literals)])

\* the walk from the highest index down of format_impl and Formatter::format
RECURSIVE RestoreLiterals(_, _)
RestoreLiterals(message, literals) ==
    IF literals = <<>> THEN message
    ELSE RestoreLiterals(
             ReplaceFirst(message, placeholder(Len(literals) - 1), literals[Len(literals)]),
             SubSeq(literals, 1, Len(literals) - 1))

NoParameters == [x \in {} |-> IntValue(0)]

\* pound_remains with the test of ignore_pound left out
pound_remains_always(message, ignore_pound) == Contains(message, "#")

\* whether assert!(!message.contains('#')) under if !ignore_pound fails
pound_remains(message, ignore_pound) == ~ignore_pound /\ Contains(message, "#")

\* what format_impl and Formatter::format do with the rendered blocks: the
\* join, the assertion on '#' and the restoration of the literals
finish(st, ignore_pound) ==
    LET Message(message) ==
            IF pound_remains(message, ignore_pound)
            THEN [err |-> NotAllPounds, text |-> <<>>, message |-> message,
                  literals |-> st.literals, log |-> st.log]
            ELSE [err |-> "", text |-> RestoreLiterals(message, st.literals),
                  message |-> message, literals |-> st.literals, log |-> st.log]
    IN IF st.err # ""
       THEN [err |-> st.err, text |-> <<>>, message |-> <<>>, literals |-> st.literals,
             log |-> st.log]
       ELSE Message(Join(st.result))

\* format_impl after init(): the rendering of a compiled pattern
format_impl(loc, literals0, blocks, ignore_pound, named_parameters) ==
    IF blocks = <<>>
    THEN [err |-> "", text |-> <<>>, message |-> <<>>, literals |-> <<>>, log |-> <<>>]
    ELSE finish(format_block(loc, blocks, 1, named_parameters, ignore_pound,
                             [err |-> "", result |-> <<>>, literals |-> literals0,
                              log |-> <<>>]),
                ignore_pound)

----------------------------------------------------------------------------
(* Formatter of format.rs, with ParamValue of param.rs.                    *)

\* ParamValue::format_with_locale
format_with_locale(v, loc) ==
    CASE v.t = "Int" -> format_to_string(loc, 10 * v.n)
      [] v.t = "Dec" -> format_to_string(loc, v.n)
      [] v.t = "Str" -> v.s

\* ParamValue::as_decimal
as_decimal(v) ==
    LET Parsed(r) == [some |-> r.ok, x |-> r.x]
    IN CASE v.t = "Int" -> [some |-> TRUE, x |-> 10 * v.n]
         [] v.t = "Dec" -> [some |-> TRUE, x |-> v.n]
         [] v.t = "Str" -> Parsed(ParseF64(v.s))

\* format.rs plural_rules_select: the key text for the category of the operand
Formatter_plural_rules_select(operand, loc) ==
    LET Key(c) == CASE c = "Zero" -> <<"z", "e", "r", "o">>
                    [] c = "One" -> <<"o", "n", "e">>
                    [] c = "Two" -> <<"t", "w", "o">>
                    [] c = "Few" -> <<"f", "e", "w">>
                    [] c = "Many" -> <<"m", "a", "n", "y">>
                    [] c = "Other" -> <<"o", "t", "h", "e", "r">>
    IN Key(category_for(loc, operand))

Formatter_ordinal_rules_select(operand, loc) == Formatter_plural_rules_select(operand, loc)

Formatter_format_simple_placeholder(loc, param, named_parameters, st) ==
    IF param \notin DOMAIN named_parameters
    THEN Push(st, UndefinedParameter \o param)
    ELSE [Push(st, placeholder(Len(st.literals)))
             EXCEPT !.literals =
                 Append(st.literals, format_with_locale(named_parameters[param], loc))]

RECURSIVE Formatter_format_block(_, _, _, _, _, _)
RECURSIVE Formatter_format_select_block(_, _, _, _, _)
RECURSIVE Formatter_format_plural_ordinal_block(_, _, _, _, _, _)

Formatter_format_select_block(loc, parsed_blocks, named_parameters, ignore_pound, st) ==
    LET Logged(name, param, option, inner) ==
            IF inner.err # "" THEN inner
            ELSE [inner EXCEPT !.log = Append(inner.log,
                     LogEntry("Select", name, param, 0, 0, FALSE, -1, parsed_blocks,
                              parsed_blocks[option].key, <<>>, <<>>))]
        Option(name, param, option) ==
            IF option = 0 THEN Panic(st, InvalidSelectOption)
            ELSE Logged(name, param, option,
                        Formatter_format_block(loc, parsed_blocks[option].val, 1,
                                               named_parameters, ignore_pound, st))
        Param(name, param) == Option(name, param, GetOrOther(parsed_blocks, param))
        Name(argument_name) ==
            IF ~argument_name.some THEN Panic(st, InvalidArgumentName)
            ELSE IF argument_name.value \notin DOMAIN named_parameters
            THEN Push(st, UndefinedParameter \o argument_name.value)
            ELSE Param(argument_name.value, named_parameters[argument_name.value])
    IN Name(FirstString(parsed_blocks, ARGUMENT_NAME))

\* x is the runtime value as a decimal and offset the offset, both in tenths
Formatter_format_plural_ordinal_block(loc, parsed_blocks, named_parameters, kind, ignore_pound, st) ==
    LET Pushed(name, v, x, offset, d, operand, option, inner, plural, pushed) ==
            [err |-> "",
             result |-> Append(st.result, pushed),
             literals |-> inner.literals,
             log |-> Append(inner.log,
                 LogEntry(kind, name, v, x, offset, operand = -1, operand, parsed_blocks,
                          parsed_blocks[option].key, plural, pushed))]
        Joined(name, v, x, offset, d, operand, option, inner, plural) ==
            Pushed(name, v, x, offset, d, operand, option, inner, plural,
                   IF ignore_pound THEN plural
                   ELSE ReplaceChar(plural, "#", format_to_string(loc, d)))
        Inner(name, v, x, offset, d, operand, option, inner) ==
            IF inner.err # "" THEN [inner EXCEPT !.result = st.result]
            ELSE Joined(name, v, x, offset, d, operand, option, inner, Join(inner.result))
        Option(name, v, x, offset, d, operand, option) ==
            IF option = 0 THEN Panic(st, InvalidPluralOption)
            ELSE Inner(name, v, x, offset, d, operand, option,
                       Formatter_format_block(loc, parsed_blocks[option].val, 1,
                                              named_parameters, ignore_pound,
                                              [err |-> "", result |-> <<>>,
                                               literals |-> st.literals, log |-> st.log]))
        Item(name, v, x, offset, d, operand, item) ==
            Option(name, v, x, offset, d, operand,
                   GetOrOther(parsed_blocks, StrValue(item)))
        Selector(name, v, x, offset, d, operand) ==
            Item(name, v, x, offset, d, operand,
                 IF kind = "Plural" THEN Formatter_plural_rules_select(operand, loc)
                 ELSE Formatter_ordinal_rules_select(operand, loc))
        Exact(name, v, x, offset, d, exact) ==
            IF exact # 0 THEN Option(name, v, x, offset, d, -1, exact)
            ELSE Selector(name, v, x, offset, d, Abs(d))
        Offset(name, v, x, text, offset) ==
            IF ~offset.ok THEN Push(st, InvalidOffset \o text)
            ELSE Exact(name, v, x, offset.x, diff(x, offset.x),
                       exact_match(parsed_blocks, v))
        Value(name, text, v, plural_value) ==
            IF ~plural_value.some THEN Push(st, InvalidParameter \o name)
            ELSE Offset(name, v, plural_value.x, text, ParseF64(text))
        Names(argument_name, argument_offset) ==
            IF ~argument_name.some THEN Panic(st, InvalidArgumentName)
            ELSE IF ~argument_offset.some THEN Panic(st, InvalidArgumentOffset)
            ELSE IF argument_name.value \notin DOMAIN named_parameters
            THEN Push(st, UndefinedParameter \o argument_name.value)
            ELSE Value(argument_name.value, argument_offset.value,
                       named_parameters[argument_name.value],
                       as_decimal(named_parameters[argument_name.value]))
    IN Names(FirstString(parsed_blocks, ARGUMENT_NAME),
             FirstString(parsed_blocks, ARGUMENT_OFFSET))

\* the loop of Formatter::format_block over parsed_blocks, from index i (from 1)
Formatter_format_block(loc, parsed_blocks, i, named_parameters, ignore_pound, st) ==
    LET Block(b) ==
            CASE b.typ = "String" -> Push(st, b.value)
              [] b.typ = "Simple" ->
                   Formatter_format_simple_placeholder(loc, b.value, named_parameters, st)
              [] b.typ = "Select" ->
                   Formatter_format_select_block(loc, b.map, named_parameters,
                                                 ignore_pound, st)
              [] b.typ \in {"Plural", "Ordinal"} ->
                   Formatter_format_plural_ordinal_block(loc, b.map, named_parameters,
                                                         b.typ, ignore_pound, st)
    IN IF i > Len(parsed_blocks) \/ st.err # "" THEN st
       ELSE Formatter_format_block(loc, parsed_blocks, i + 1, named_parameters,
                                   ignore_pound, Block(parsed_blocks[i]))

\* Formatter::new(loc, literals0, blocks, ignore_pound).format(named_parameters)
Formatter_format(loc, literals0, blocks, ignore_pound, named_parameters) ==
    IF blocks = <<>>
    THEN [err |-> "", text |-> <<>>, message |-> <<>>, literals |-> <<>>, log |-> <<>>]
    ELSE finish(Formatter_format_block(loc, blocks, 1, named_parameters, ignore_pound,
                                       [err |-> "", result |-> <<>>,
                                        literals |-> literals0, log |-> <<>>]),
                ignore_pound)

----------------------------------------------------------------------------
(* The inputs: the patterns a MessageFormat is constructed with and the    *)
(* parameter maps of a call.  The patterns are those of the tests of       *)
(* lib.rs, with the argument names shortened to N, G and W.                *)

\* 
PatEmpty ==
    <<>>

\* plain text
PatPlain ==
    <<"p", "l", "a", "i", "n", " ", "t", "e", "x", "t">>

\* in {W} ok.
PatSimple ==
    <<"i", "n", " ", "{", "W", "}", " ", "o", "k", ".">>

\* {G, select, f {Her} other {Their}} b {G,select,f{red}other{green}}.
PatSelect ==
    <<"{", "G", ",", " ", "s", "e", "l", "e", "c", "t", ",", " ", "f", " ", "{", "H",
      "e", "r", "}", " ", "o", "t", "h", "e", "r", " ", "{", "T", "h", "e", "i", "r",
      "}", "}", " ", "b", " ", "{", "G", ",", "s", "e", "l", "e", "c", "t", ",", "f",
      "{", "r", "e", "d", "}", "o", "t", "h", "e", "r", "{", "g", "r", "e", "e", "n",
      "}", "}", ".">>

\* {N, plural, offset:1 =0 {#} =1 {#} =2 {#} one {#} other {#}}
PatOffset ==
    <<"{", "N", ",", " ", "p", "l", "u", "r", "a", "l", ",", " ", "o", "f", "f", "s",
      "e", "t", ":", "1", " ", "=", "0", " ", "{", "#", "}", " ", "=", "1", " ", "{",
      "#", "}", " ", "=", "2", " ", "{", "#", "}", " ", "o", "n", "e", " ", "{", "#",
      "}", " ", "o", "t", "h", "e", "r", " ", "{", "#", "}", "}">>

\* I see {N, plural, offset:1 =0 {no one} =1 {{W}} one {{W} and one} other {{W} and #}}
PatPeople ==
    <<"I", " ", "s", "e", "e", " ", "{", "N", ",", " ", "p", "l", "u", "r", "a", "l",
      ",", " ", "o", "f", "f", "s", "e", "t", ":", "1", " ", "=", "0", " ", "{", "n",
      "o", " ", "o", "n", "e", "}", " ", "=", "1", " ", "{", "{", "W", "}", "}", " ",
      "o", "n", "e", " ", "{", "{", "W", "}", " ", "a", "n", "d", " ", "o", "n", "e",
      "}", " ", "o", "t", "h", "e", "r", " ", "{", "{", "W", "}", " ", "a", "n", "d",
      " ", "#", "}", "}">>

\* {N,plural,zero{z#}one{o#}two{t#}few{f#}many{m#}other{x#}}
PatCategories ==
    <<"{", "N", ",", "p", "l", "u", "r", "a", "l", ",", "z", "e", "r", "o", "{", "z",
      "#", "}", "o", "n", "e", "{", "o", "#", "}", "t", "w", "o", "{", "t", "#", "}",
      "f", "e", "w", "{", "f", "#", "}", "m", "a", "n", "y", "{", "m", "#", "}", "o",
      "t", "h", "e", "r", "{", "x", "#", "}", "}">>

\* {N, plural, many {m} other {x}}
PatManyOther ==
    <<"{", "N", ",", " ", "p", "l", "u", "r", "a", "l", ",", " ", "m", "a", "n", "y",
      " ", "{", "m", "}", " ", "o", "t", "h", "e", "r", " ", "{", "x", "}", "}">>

\* {N, plural, one {{G, select, f {{W} her} other {{W} his}}} other {{G, select, f {{W} her #} other {{W} his #}}}}
PatNested ==
    <<"{", "N", ",", " ", "p", "l", "u", "r", "a", "l", ",", " ", "o", "n", "e", " ",
      "{", "{", "G", ",", " ", "s", "e", "l", "e", "c", "t", ",", " ", "f", " ", "{",
      "{", "W", "}", " ", "h", "e", "r", "}", " ", "o", "t", "h", "e", "r", " ", "{",
      "{", "W", "}", " ", "h", "i", "s", "}", "}", "}", " ", "o", "t", "h", "e", "r",
      " ", "{", "{", "G", ",", " ", "s", "e", "l", "e", "c", "t", ",", " ", "f", " ",
      "{", "{", "W", "}", " ", "h", "e", "r", " ", "#", "}", " ", "o", "t", "h", "e",
      "r", " ", "{", "{", "W", "}", " ", "h", "i", "s", " ", "#", "}", "}", "}", "}">>

\* {N, plural, other {# {W} #}}
PatPoundParam ==
    <<"{", "N", ",", " ", "p", "l", "u", "r", "a", "l", ",", " ", "o", "t", "h", "e",
      "r", " ", "{", "#", " ", "{", "W", "}", " ", "#", "}", "}">>

\* {N, selectordinal, one {#st} two {#nd} few {#rd} other {#th}}
PatOrdinal ==
    <<"{", "N", ",", " ", "s", "e", "l", "e", "c", "t", "o", "r", "d", "i", "n", "a",
      "l", ",", " ", "o", "n", "e", " ", "{", "#", "s", "t", "}", " ", "t", "w", "o",
      " ", "{", "#", "n", "d", "}", " ", "f", "e", "w", " ", "{", "#", "r", "d", "}",
      " ", "o", "t", "h", "e", "r", " ", "{", "#", "t", "h", "}", "}">>

\* A's '{0} # r' and {N} c
PatLiteral ==
    <<"A", "'", "s", " ", "'", "{", "0", "}", " ", "#", " ", "r", "'", " ", "a", "n",
      "d", " ", "{", "N", "}", " ", "c">>

\* has '{'0'} # r' {N}
PatLiteralClosed ==
    <<"h", "a", "s", " ", "'", "{", "'", "0", "'", "}", " ", "#", " ", "r", "'", " ",
      "{", "N", "}">>

\* A''s a'{''''b'
PatQuotes ==
    <<"A", "'", "'", "s", " ", "a", "'", "{", "'", "'", "'", "'", "b", "'">>

\* a''{N}'b
PatQuoteBrace ==
    <<"a", "'", "'", "{", "N", "}", "'", "b">>

\* {N, plural, other {'#' is # '{W}' {W}}}
PatLiteralInPlural ==
    <<"{", "N", ",", " ", "p", "l", "u", "r", "a", "l", ",", " ", "o", "t", "h", "e",
      "r", " ", "{", "'", "#", "'", " ", "i", "s", " ", "#", " ", "'", "{", "W", "}",
      "'", " ", "{", "W", "}", "}", "}">>

\* ''{}}
PatUnmatchedClose ==
    <<"'", "'", "{", "}", "}">>

\* {} {
PatUnmatchedOpen ==
    <<"{", "}", " ", "{">>

\* a{}b
PatUnknown ==
    <<"a", "{", "}", "b">>

\* {G, select, f {x}}
PatSelectNoOther ==
    <<"{", "G", ",", " ", "s", "e", "l", "e", "c", "t", ",", " ", "f", " ", "{", "x",
      "}", "}">>

\* {N, plural, one {x}}
PatPluralNoOther ==
    <<"{", "N", ",", " ", "p", "l", "u", "r", "a", "l", ",", " ", "o", "n", "e", " ",
      "{", "x", "}", "}">>

\* {N, selectordinal, one {x}}
PatOrdinalNoOther ==
    <<"{", "N", ",", " ", "s", "e", "l", "e", "c", "t", "o", "r", "d", "i", "n", "a",
      "l", ",", " ", "o", "n", "e", " ", "{", "x", "}", "}">>

\* {N, plural, other {{G, select, f {x}}}}
PatNestedNoOther ==
    <<"{", "N", ",", " ", "p", "l", "u", "r", "a", "l", ",", " ", "o", "t", "h", "e",
      "r", " ", "{", "{", "G", ",", " ", "s", "e", "l", "e", "c", "t", ",", " ", "f",
      " ", "{", "x", "}", "}", "}", "}">>

\* a # {W}
PatStrayPound ==
    <<"a", " ", "#", " ", "{", "W", "}">>

\* {G, select, f {#} other {o}}
PatSelectPound ==
    <<"{", "G", ",", " ", "s", "e", "l", "e", "c", "t", ",", " ", "f", " ", "{", "#",
      "}", " ", "o", "t", "h", "e", "r", " ", "{", "o", "}", "}">>


\* {W} ''
PatParamThenQuote ==
    <<"{", "W", "}", " ", "'", "'">>

\* '{a
\* b}'   (a line break inside the quotes)
PatLiteralNewline ==
    <<"'", "{", "a", "\n", "b", "}", "'">>

\* A's 'has {N} c'.
PatSingleQuotes ==
    <<"A", "'", "s", " ", "'", "h", "a", "s", " ", "{", "N", "}", " ", "c", "'", ".">>

\* {W, plural, one {a} other {b #}}
PatPluralW ==
    <<"{", "W", ",", " ", "p", "l", "u", "r", "a", "l", ",", " ", "o", "n", "e", " ",
      "{", "a", "}", " ", "o", "t", "h", "e", "r", " ", "{", "b", " ", "#", "}", "}">>

\* '#\n': a quoted '#' and a line break
PatQuotedPound ==
    <<"'", "#", "\n", "'">>

\* It''s '{''{W}''}' {W}: tokens of '' inside a literal made later
PatQuoteInLiteral ==
    <<"I", "t", "'", "'", "s", " ", "'", "{", "'", "'", "{", "W", "}", "'", "'", "}",
      "'", " ", "{", "W", "}">>

\* {N, plural, argumentOffset {x} other {# b}}
PatOffsetKey ==
    <<"{", "N", ",", " ", "p", "l", "u", "r", "a", "l", ",", " ", "a", "r", "g", "u",
      "m", "e", "n", "t", "O", "f", "f", "s", "e", "t", " ", "{", "x", "}", " ", "o",
      "t", "h", "e", "r", " ", "{", "#", " ", "b", "}", "}">>

\* {N, plural, argumentName {W} other {b}}
PatNameKey ==
    <<"{", "N", ",", " ", "p", "l", "u", "r", "a", "l", ",", " ", "a", "r", "g", "u",
      "m", "e", "n", "t", "N", "a", "m", "e", " ", "{", "W", "}", " ", "o", "t", "h",
      "e", "r", " ", "{", "b", "}", "}">>

\* {W, plural, offset:1 other {b #}}
PatOffsetW ==
    <<"{", "W", ",", " ", "p", "l", "u", "r", "a", "l", ",", " ", "o", "f", "f", "s",
      "e", "t", ":", "1", " ", "o", "t", "h", "e", "r", " ", "{", "b", " ", "#", "}",
      "}">>

\* {N, plural, offset:200 other {b #}}: an offset beyond the i32 range
PatBigOffset ==
    <<"{", "N", ",", " ", "p", "l", "u", "r", "a", "l", ",", " ", "o", "f", "f", "s",
      "e", "t", ":", "2", "0", "0", " ", "o", "t", "h", "e", "r", " ", "{", "b", " ",
      "#", "}", "}">>

\* { W } and {W x}
PatSpacedName ==
    <<"{", " ", "W", " ", "}", " ", "a", "n", "d", " ", "{", "W", " ", "x", "}">>

Patterns ==
    {PatEmpty, PatPlain, PatSimple, PatSelect,
     PatOffset, PatPeople, PatCategories, PatManyOther,
     PatNested, PatPoundParam, PatOrdinal, PatLiteral,
     PatLiteralClosed, PatQuotes, PatQuoteBrace, PatLiteralInPlural,
     PatUnmatchedClose, PatUnmatchedOpen, PatUnknown, PatSelectNoOther,
     PatPluralNoOther, PatOrdinalNoOther, PatNestedNoOther, PatStrayPound,
     PatSelectPound, PatParamThenQuote, PatLiteralNewline, PatSingleQuotes,
     PatPluralW, PatQuotedPound, PatQuoteInLiteral, PatOffsetKey,
     PatNameKey, PatSpacedName}

\* the largest of the consecutive integer values 0..MaxN of the argument N
MaxN == 5

NameN == <<"N">>
NameG == <<"G">>
NameW == <<"W">>

\* values of N: integers, a text that is no number and one that is
NValues ==
    {IntValue(n) : n \in 0..MaxN}
    \cup {IntValue(11), IntValue(21), IntValue(1234), StrValue(<<"V">>),
          StrValue(<<"1", ".", "5">>)}

\* values of G: a declared key, an undeclared one, and the names of the two
\* entries the parser adds to every option table
GValues ==
    {StrValue(<<"f">>), StrValue(<<"z", "z">>), ARGUMENT_NAME, ARGUMENT_OFFSET}

\* values of W: texts with pattern syntax in them, the token of literal 0,
\* a number and the least i64
WValues ==
    {StrValue(<<"B", "o">>), StrValue(<<"g", "#", "1">>), StrValue(<<"}", " ", "{">>),
     StrValue(placeholder(0)), IntValue(1234), IntValue(I64Min)}

\* values only param.rs has
DecValues == {DecValue(10), DecValue(15)}

Params(n, g, w) == (NameN :> n) @@ (NameG :> g) @@ (NameW :> w)

Without(f, name) == [x \in DOMAIN f \ {name} |-> f[x]]

BaseParams == Params(IntValue(2), StrValue(<<"f">>), StrValue(<<"B", "o">>))

\* the maps a caller of lib.rs can pass: one argument varies at a time
ParamMaps ==
    {NoParameters}
    \cup {Without(BaseParams, x) : x \in {NameN, NameG, NameW}}
    \cup {[BaseParams EXCEPT ![NameN] = v] : v \in NValues}
    \cup {[BaseParams EXCEPT ![NameG] = v] : v \in GValues}
    \cup {[BaseParams EXCEPT ![NameW] = v] : v \in WValues}
    \cup {[BaseParams EXCEPT ![NameN] = v, ![NameG] = StrValue(<<"z", "z">>),
                             ![NameW] = StrValue(<<"g", "#", "1">>)] :
             v \in {IntValue(1), IntValue(2)}}

\* the maps a caller of Formatter can pass
FormatterParamMaps ==
    ParamMaps \cup {[BaseParams EXCEPT ![NameN] = v] : v \in DecValues}

----------------------------------------------------------------------------
(* The state machine: a MessageFormat and the calls made on it.  A caller  *)
(* first fixes the method and its arguments (Call); the method's action    *)
(* then runs the whole method and leaves what it returned in outcome.      *)

NoOutcome == [err |-> "", text |-> <<>>, message |-> <<>>, literals |-> <<>>, log |-> <<>>]

Calls ==
    {[op |-> "format", ignore_pound |-> FALSE, params |-> NoParameters]}
    \cup {[op |-> "format_with_params", ignore_pound |-> FALSE, params |-> m] :
             m \in ParamMaps}
    \cup {[op |-> "format_ignoring_pound", ignore_pound |-> TRUE, params |-> m] :
             m \in ParamMaps}
    \cup {[op |-> "Formatter::format", ignore_pound |-> b, params |-> m] :
             m \in FormatterParamMaps, b \in BOOLEAN}

\* MessageFormat::with_locale (MessageFormat::new passes en-US)
Init ==
    /\ pattern \in {[some |-> TRUE, text |-> p] : p \in Patterns}
    /\ locale \in Locales
    /\ initial_literals = <<>>
    /\ parsed_pattern = <<>>
    /\ pc = "idle"
    /\ call = [op |-> "new", ignore_pound |-> FALSE, params |-> NoParameters]
    /\ outcome = NoOutcome
    /\ overflow_checks \in BOOLEAN

\* a Formatter borrows the fields of a MessageFormat that init() has filled
Call ==
    /\ pc = "idle"
    /\ \E c \in Calls :
        /\ c.op = "Formatter::format" => ~pattern.some
        /\ call' = c
    /\ pc' = "called"
    /\ outcome' = NoOutcome
    /\ UNCHANGED <<pattern, initial_literals, parsed_pattern, locale, overflow_checks>>

\* what init() leaves in the three fields and its panic, if any: the pattern
\* is taken first, initial_literals is written by insert_placeholders and
\* parsed_pattern only when parse_block returns
init ==
    LET Parsed(protected, parsed) ==
            [err |-> parsed.err, initial_literals |-> protected.literals,
             parsed_pattern |-> IF parsed.err = "" THEN parsed.val ELSE <<>>]
        Protected(protected) == Parsed(protected, parse_block(protected.text))
    IN IF ~pattern.some
       THEN [err |-> "", initial_literals |-> initial_literals,
             parsed_pattern |-> parsed_pattern]
       ELSE Protected(insert_placeholders(pattern.text))

\* format_impl rendering on self.initial_literals itself, not on a clone: the
\* loop that restores the literals pops the table empty
FormatImpl_shared ==
    LET Run(i) ==
            /\ pattern' = [some |-> FALSE, text |-> <<>>]
            /\ initial_literals' = <<>>
            /\ parsed_pattern' = i.parsed_pattern
            /\ outcome' = IF i.err # "" THEN [NoOutcome EXCEPT !.err = i.err]
                          ELSE format_impl(locale, i.initial_literals, i.parsed_pattern,
                                           call.ignore_pound, call.params)
            /\ pc' = "idle"
            /\ UNCHANGED <<locale, call, overflow_checks>>
    IN Run(init)

\* MessageFormat::format_impl
FormatImpl ==
    LET Run(i) ==
            /\ pattern' = [some |-> FALSE, text |-> <<>>]
            /\ initial_literals' = i.initial_literals
            /\ parsed_pattern' = i.parsed_pattern
            /\ outcome' = IF i.err # "" THEN [NoOutcome EXCEPT !.err = i.err]
                          ELSE format_impl(locale, i.initial_literals, i.parsed_pattern,
                                           call.ignore_pound, call.params)
            /\ pc' = "idle"
            /\ UNCHANGED <<locale, call, overflow_checks>>
    IN Run(init)

Format == pc = "called" /\ call.op = "format" /\ FormatImpl

FormatWithParams == pc = "called" /\ call.op = "format_with_params" /\ FormatImpl

FormatIgnoringPound == pc = "called" /\ call.op = "format_ignoring_pound" /\ FormatImpl

\* Formatter::new(&locale, &initial_literals, &parsed_pattern, ignore_pound)
\* .format(Some(named_parameters))
FormatterFormat ==
    /\ pc = "called"
    /\ call.op = "Formatter::format"
    /\ outcome' = Formatter_format(locale, initial_literals, parsed_pattern,
                                   call.ignore_pound, call.params)
    /\ pc' = "idle"
    /\ UNCHANGED <<pattern, initial_literals, parsed_pattern, locale, call,
                   overflow_checks>>

Next == Call \/ Format \/ FormatWithParams \/ FormatIgnoringPound \/ FormatterFormat

Spec == Init /\ [][Next]_vars

----------------------------------------------------------------------------
(* A second specification for the literal protector and the tokenizer: a   *)
(* MessageFormat is constructed with any pattern of at most MaxLen         *)
(* characters over LexChars, or one of the quoting patterns of the tests,  *)
(* or a one-block pattern that tries the headers, the option bodies and    *)
(* the offsets, and formatted in en-US, also with an integer at an end of  *)
(* the i64 range.                                                          *)

\* the length of the longest enumerated pattern
MaxLen == 4

LexChars == {"'", "{", "}", "#", "a", "\n"}

\* all sequences over LexChars of length at most n
RECURSIVE StringsUpTo(_)
StringsUpTo(n) ==
    LET Longer(S) == S \cup {Append(s, c) : s \in S, c \in LexChars}
    IN IF n = 0 THEN {<<>>} ELSE Longer(StringsUpTo(n - 1))

\* one-block patterns whose segments have, nearly have or lack a header
HeaderPatterns ==
    {<<"{", " ", "N", " ", ",", " ", "p", "l", "u", "r", "a", "l", " ", ",", " ", "o",
       "f", "f", "s", "e", "t", ":", "1", " ", "x", "}">>,
     <<"{", "N", ",", "p", "l", "u", "r", "a", "l", ",", "o", "t", "h", "e", "r", "{",
       "a", "}", "}">>,
     <<"{", "N", ",", "s", "e", "l", "e", "c", "t", "o", "r", "d", "i", "n", "a", "l",
       ",", "o", "t", "h", "e", "r", "{", "a", "}", "}">>,
     <<"{", "N", ",", "s", "e", "l", "e", "c", "t", ",", "o", "t", "h", "e", "r", "{",
       "a", "}", "}">>,
     <<"{", "N", ",", " ", "s", "e", "l", "e", "c", "t", "}">>,
     <<"{", "N", ",", " ", "p", "l", "u", "r", "a", "l", " ", "x", ",", "}">>,
     <<"{", ",", " ", "p", "l", "u", "r", "a", "l", ",", "}">>,
     <<"{", " ", "}">>,
     <<"{", "N", " ", "M", ",", " ", "p", "l", "u", "r", "a", "l", ",", " ", "o", "t",
       "h", "e", "r", "{", "a", "}", "}">>,
     <<"{", " ", "N", ",", "\n", "s", "e", "l", "e", "c", "t", "\n", ",", "f", "{",
       "a", "}", "o", "t", "h", "e", "r", "{", "b", "}", "}">>,
     <<"{", "N", ";", "p", "l", "u", "r", "a", "l", ",", "o", "t", "h", "e", "r", "{",
       "a", "}", "}">>}

\* one-block patterns whose options are written in the spellings of a key,
\* whose headers have, nearly have or lack an offset clause and whose bodies
\* are or are not an alternation of keys and blocks
OptionPatterns ==
    {<<"{", "G", ",", "s", "e", "l", "e", "c", "t", ",", "=", "1", "{", "a", "}", "o",
       "t", "h", "e", "r", "{", "b", "}", "}">>,
     <<"{", "G", ",", "s", "e", "l", "e", "c", "t", ",", " ", "1", " ", "{", "a", "}",
       "o", "t", "h", "e", "r", "{", "b", "}", "}">>,
     <<"{", "N", ",", "p", "l", "u", "r", "a", "l", ",", "=", "1", "{", "a", "}", "o",
       "t", "h", "e", "r", "{", "b", "}", "}">>,
     <<"{", "N", ",", "p", "l", "u", "r", "a", "l", ",", " ", "1", " ", "{", "a", "}",
       "o", "t", "h", "e", "r", "{", "b", "}", "}">>,
     <<"{", "N", ",", "s", "e", "l", "e", "c", "t", "o", "r", "d", "i", "n", "a", "l",
       ",", "=", "1", "{", "a", "}", "o", "t", "h", "e", "r", "{", "b", "}", "}">>,
     <<"{", "N", ",", "p", "l", "u", "r", "a", "l", ",", "o", "f", "f", "s", "e", "t",
       ":", "2", " ", "o", "t", "h", "e", "r", "{", "b", "}", "}">>,
     <<"{", "N", ",", "p", "l", "u", "r", "a", "l", ",", " ", "o", "f", "f", "s", "e",
       "t", ":", "0", "2", " ", "=", "0", "{", "a", "}", "o", "t", "h", "e", "r", "{",
       "b", "}", "}">>,
     <<"{", "N", ",", "p", "l", "u", "r", "a", "l", ",", "o", "f", "f", "s", "e", "t",
       ",", "1", "{", "a", "}", "o", "t", "h", "e", "r", "{", "b", "}", "}">>,
     <<"{", "N", ",", "p", "l", "u", "r", "a", "l", ",", " ", "o", "f", "f", "s", "e",
       "t", ":", "1", "2", "o", "t", "h", "e", "r", "{", "b", "}", "}">>,
     <<"{", "N", ",", "s", "e", "l", "e", "c", "t", "o", "r", "d", "i", "n", "a", "l",
       ",", "o", "f", "f", "s", "e", "t", ":", "2", "{", "a", "}", "o", "t", "h", "e",
       "r", "{", "b", "}", "}">>,
     <<"{", "G", ",", "s", "e", "l", "e", "c", "t", ",", "o", "f", "f", "s", "e", "t",
       ":", "2", "{", "a", "}", "o", "t", "h", "e", "r", "{", "b", "}", "}">>,
     <<"{", "N", ",", "p", "l", "u", "r", "a", "l", ",", "o", "t", "h", "e", "r", "{",
       "x", "}", " ", "}">>,
     <<"{", "N", ",", "p", "l", "u", "r", "a", "l", ",", "o", "t", "h", "e", "r", "}">>,
     <<"{", "G", ",", "s", "e", "l", "e", "c", "t", ",", "o", "t", "h", "e", "r", "{",
       "x", "}", " ", "}">>,
     <<"{", "N", ",", "s", "e", "l", "e", "c", "t", "o", "r", "d", "i", "n", "a", "l",
       ",", "o", "t", "h", "e", "r", "{", "x", "}", "\n", "}">>,
     <<"{", "N", ",", "p", "l", "u", "r", "a", "l", ",", "o", "t", "h", "e", "r", "{",
       "a", "}", "{", "b", "}", "{", "c", "}", "}">>,
     <<"{", "N", ",", "p", "l", "u", "r", "a", "l", ",", "o", "t", "h", "e", "r", "{",
       "a", "}", "{", "b", "}", "}">>,
     <<"{", "G", ",", "s", "e", "l", "e", "c", "t", ",", "{", "a", "}", "{", "b", "}",
       "o", "t", "h", "e", "r", "{", "c", "}", "}">>}

LexPatterns ==
    StringsUpTo(MaxLen)
    \cup {PatQuotes, PatQuoteBrace, PatLiteral, PatLiteralClosed, PatLiteralInPlural,
          PatLiteralNewline, PatUnmatchedOpen, PatUnmatchedClose, PatUnknown,
          PatSingleQuotes, PatSelect, PatPeople, PatPluralW, PatOffsetW, PatBigOffset}
    \cup HeaderPatterns
    \cup OptionPatterns

\* the parameters of the tests of quoting: N is 5
LexParams == [BaseParams EXCEPT ![NameN] = IntValue(5)]

\* values of W at the two ends of the i64 range
EndValues == {IntValue(I64Min), IntValue(I64Min + 1), IntValue(I64Max)}

LexCalls ==
    {[op |-> "format", ignore_pound |-> FALSE, params |-> NoParameters],
     [op |-> "format_with_params", ignore_pound |-> FALSE, params |-> LexParams]}
    \cup {[op |-> "format_with_params", ignore_pound |-> FALSE,
           params |-> [LexParams EXCEPT ![NameW] = v]] : v \in EndValues}

InitLex ==
    /\ pattern \in {[some |-> TRUE, text |-> p] : p \in LexPatterns}
    /\ locale = "en-US"
    /\ initial_literals = <<>>
    /\ parsed_pattern = <<>>
    /\ pc = "idle"
    /\ call = [op |-> "new", ignore_pound |-> FALSE, params |-> NoParameters]
    /\ outcome = NoOutcome
    /\ overflow_checks \in BOOLEAN

CallLex ==
    /\ pc = "idle"
    /\ call' \in LexCalls
    /\ pc' = "called"
    /\ outcome' = NoOutcome
    /\ UNCHANGED <<pattern, initial_literals, parsed_pattern, locale, overflow_checks>>

NextLex == CallLex \/ Format \/ FormatWithParams

SpecLex == InitLex /\ [][NextLex]_vars

----------------------------------------------------------------------------
(* A third specification for ParamValue of param.rs: two values are       *)
(* compared and hashed as the tests of param.rs do, or one is looked up   *)
(* in a HashMap whose only key is the other.  No MessageFormat takes part: *)
(* its fields stay empty.                                                 *)

\* integers, decimals (whole, fractional, at and beyond both ends of the i64
\* range) and texts
ParamValues ==
    {IntValue(n) : n \in {-1, 0, 1, 2, I64Max - 1, I64Max, I64Min}}
    \cup {DecValue(x) : x \in {-10, 0, 5, 10, 11, 20, 10 * (I64Max - 1), 10 * I64Max,
                               10 * I64Max + 5, 10 * (I64Max + 1), 100 * I64Max,
                               10 * I64Min, 10 * (I64Min - 1)}}
    \cup {StrValue(<<>>), StrValue(<<"1">>), StrValue(<<"1", ".", "0">>),
          StrValue(<<"a">>)}

InitParam ==
    /\ pattern = [some |-> FALSE, text |-> <<>>]
    /\ locale = "en-US"
    /\ initial_literals = <<>>
    /\ parsed_pattern = <<>>
    /\ pc = "idle"
    /\ call = [op |-> "new", ignore_pound |-> FALSE, params |-> <<>>]
    /\ outcome = NoOutcome
    /\ overflow_checks \in BOOLEAN

CallParam ==
    /\ pc = "idle"
    /\ \E o \in {"eq", "get"}, a \in ParamValues, b \in ParamValues :
           call' = [op |-> o, ignore_pound |-> FALSE, params |-> <<a, b>>]
    /\ pc' = "called"
    /\ outcome' = NoOutcome
    /\ UNCHANGED <<pattern, initial_literals, parsed_pattern, locale, overflow_checks>>

\* test_int_float_eq and prop_reverse_reverse on a and b: a == b, b == a and
\* the two hashes
ParamEq ==
    /\ pc = "called"
    /\ call.op = "eq"
    /\ outcome' = [NoOutcome EXCEPT !.log =
                      <<[ab |-> ParamValue_eq(call.params[1], call.params[2]),
                         ba |-> ParamValue_eq(call.params[2], call.params[1]),
                         hash_a |-> hash(call.params[1]),
                         hash_b |-> hash(call.params[2])]>>]
    /\ pc' = "idle"
    /\ UNCHANGED <<pattern, initial_literals, parsed_pattern, locale, call,
                   overflow_checks>>

\* parsed_blocks.get(b) on an option table whose only key is a
HashMapGet ==
    /\ pc = "called"
    /\ call.op = "get"
    /\ outcome' = [NoOutcome EXCEPT !.log =
                      <<[found |-> MapIndex(<<[key |-> call.params[1], val |-> <<>>]>>,
                                            call.params[2]) # 0]>>]
    /\ pc' = "idle"
    /\ UNCHANGED <<pattern, initial_literals, parsed_pattern, locale, call,
                   overflow_checks>>

NextParam == CallParam \/ ParamEq \/ HashMapGet

SpecParam == InitParam /\ [][NextParam]_vars

----------------------------------------------------------------------------
(* The properties.  Those of branch selection and pound substitution are   *)
(* stated over the log of a returned call, those of compilation over the   *)
(* step that compiles.                                                     *)

\* a format call has returned or panicked
Returned == pc = "idle" /\ call.op # "new"

\* the first format call of a MessageFormat is about to run
Compiling == pc = "called" /\ pattern.some

\* the block tree and literal table init() makes of a pattern
Compiled(p) == parse_block(insert_placeholders(p).text).val

CompiledSelect == Compiled(PatSelect)
CompiledOffset == Compiled(PatOffset)
CompiledPeople == Compiled(PatPeople)
CompiledManyOther == Compiled(PatManyOther)
CompiledNested == Compiled(PatNested)
CompiledSimple == Compiled(PatSimple)
CompiledPoundParam == Compiled(PatPoundParam)
CompiledParamThenQuote == Compiled(PatParamThenQuote)

\* equality of two ParamValues as the data model defines it
SameValue(a, b) ==
    CASE a.t = "Str" /\ b.t = "Str" -> a.s = b.s
      [] a.t = "Int" /\ b.t = "Int" -> a.n = b.n
      [] a.t = "Dec" /\ b.t = "Dec" -> a.n = b.n
      [] a.t = "Int" /\ b.t = "Dec" -> 10 * a.n = b.n
      [] a.t = "Dec" /\ b.t = "Int" -> a.n = 10 * b.n
      [] OTHER -> FALSE

\* the keys of an option table that the pattern declares
Declared(options) ==
    {options[i].key : i \in 1..Len(options)} \ {ARGUMENT_NAME, ARGUMENT_OFFSET}

HasDeclared(options, v) == \E k \in Declared(options) : SameValue(k, v)

\* a numeric runtime value in tenths
ValueTenths(v) ==
    CASE v.t = "Int" -> 10 * v.n
      [] v.t = "Dec" -> v.n
      [] v.t = "Str" -> ParseF64(v.s).x

\* the option key named after a category
CategoryKey(c) ==
    CASE c = "Zero" -> StrValue(<<"z", "e", "r", "o">>)
      [] c = "One" -> StrValue(<<"o", "n", "e">>)
      [] c = "Two" -> StrValue(<<"t", "w", "o">>)
      [] c = "Few" -> StrValue(<<"f", "e", "w">>)
      [] c = "Many" -> StrValue(<<"m", "a", "n", "y">>)
      [] c = "Other" -> OTHER_KEY

\* s with every '#' replaced by t
Substituted(s, t) == Join([i \in 1..Len(s) |-> IF s[i] = "#" THEN t ELSE <<s[i]>>])

SelectEntries == {i \in 1..Len(outcome.log) : outcome.log[i].kind = "Select"}

PluralEntries == {i \in 1..Len(outcome.log) : outcome.log[i].kind \in {"Plural", "Ordinal"}}

\* the value of argument N in the current call is the integer n
NIs(n) == NameN \in DOMAIN call.params /\ call.params[NameN] = IntValue(n)

\* C1: a Select block whose argument is present renders the branch of the
\* declared key its runtime value equals, and the branch of "other" when the
\* value equals no declared key.
C1_SelectRendersMatchOrOther ==
    /\ Returned =>
        \A i \in SelectEntries :
            LET Chosen(e, raw) ==
                    IF HasDeclared(e.options, raw) THEN SameValue(e.key, raw)
                    ELSE e.key = OTHER_KEY
                Entry(e) == Chosen(e, call.params[e.name])
            IN Entry(outcome.log[i])
    /\ Returned /\ parsed_pattern = CompiledSelect /\ NameG \in DOMAIN call.params
        => outcome.text =
               IF call.params[NameG] = StrValue(<<"f">>)
               THEN <<"H", "e", "r", " ", "b", " ", "r", "e", "d", ".">>
               ELSE <<"T", "h", "e", "i", "r", " ", "b", " ", "g", "r", "e", "e", "n", ".">>

\* C2: a Plural or Ordinal block renders the branch of the declared key that
\* equals the unmodified runtime value whenever there is one, whatever the
\* offset and the category; plural_selector is called only when there is none.
C2_ExactMatchOnRawValue ==
    Returned =>
        \A i \in PluralEntries :
            LET Chosen(e, raw) ==
                    /\ HasDeclared(e.options, raw) <=> e.operand = -1
                    /\ HasDeclared(e.options, raw) => SameValue(e.key, raw)
                Entry(e) == Chosen(e, call.params[e.name])
            IN Entry(outcome.log[i])

\* offset 1 and value 1: the branch =1 is rendered though value - offset is 0
\* and =0 is declared
C2_Witness ==
    /\ Returned
    /\ parsed_pattern = CompiledPeople
    /\ NIs(1)
    /\ outcome.text = <<"I", " ", "s", "e", "e", " ", "B", "o">>
    /\ \E i \in PluralEntries :
        /\ outcome.log[i].offset = 10
        /\ outcome.log[i].key = IntValue(1)
        /\ HasDeclared(outcome.log[i].options, IntValue(0))

\* C3: when a Plural block has no key equal to the runtime value v, the
\* operand plural_selector is called with is |v - k| for the offset k of the
\* block; offset 1 and value 2 is classified as 1.
C3_OperandIsAbsDiff ==
    /\ Returned =>
        \A i \in PluralEntries :
            LET Operand(e, raw) ==
                    e.kind = "Plural" /\ ~HasDeclared(e.options, raw)
                        => e.operand = Abs(ValueTenths(raw) - e.offset)
                Entry(e) == Operand(e, call.params[e.name])
            IN Entry(outcome.log[i])
    /\ Returned /\ parsed_pattern = CompiledPeople /\ call.params = BaseParams
       /\ locale = "en-US"
        => outcome.text = <<"I", " ", "s", "e", "e", " ", "B", "o", " ",
                            "a", "n", "d", " ", "o", "n", "e">>

\* offset 1 and value 2: the operand is 1 and not 2
C3_Witness ==
    /\ Returned
    /\ parsed_pattern = CompiledPeople
    /\ NIs(2)
    /\ \E i \in PluralEntries :
        /\ outcome.log[i].offset = 10
        /\ outcome.log[i].operand = 10
        /\ outcome.log[i].key = CategoryKey("One")

\* C4: when no key equals the runtime value, the branch rendered is the one
\* keyed by the name of the category of the operand if that key is declared
\* and the branch of "other" if it is not; the category other renders "other"
\* even when "many" is declared.
C4_CategoryKeyOrOther ==
    /\ Returned =>
        \A i \in PluralEntries :
            LET Chosen(e, key) ==
                    e.operand # -1
                        => e.key = IF HasDeclared(e.options, key) THEN key ELSE OTHER_KEY
                Entry(e) == Chosen(e, CategoryKey(category_for(locale, e.operand)))
            IN Entry(outcome.log[i])
    /\ Returned /\ parsed_pattern = CompiledManyOther /\ locale = "en-US" /\ NIs(2)
        => outcome.text = <<"x">>

\* C5: with ignore_pound false, the text a Plural or Ordinal block pushes is
\* the text of its chosen branch with every '#' replaced by the formatted
\* value - offset, in every branch and also below a nested Select; with
\* offset 1, the values 0, 1 and 21 give "-1", "0" and "20".
C5_PoundIsValueMinusOffset ==
    /\ Returned /\ ~call.ignore_pound =>
        \A i \in PluralEntries :
            LET Pushed(e, raw) ==
                    /\ e.pushed = Substituted(e.plural,
                                      format_to_string(locale, ValueTenths(raw) - e.offset))
                    /\ ~Contains(e.pushed, "#")
                Entry(e) == Pushed(e, call.params[e.name])
            IN Entry(outcome.log[i])
    /\ Returned /\ ~call.ignore_pound /\ parsed_pattern = CompiledOffset /\ locale = "en-US"
        => /\ NIs(0) => outcome.text = <<"-", "1">>
           /\ NIs(1) => outcome.text = <<"0">>
           /\ NIs(21) => outcome.text = <<"2", "0">>
    /\ Returned /\ ~call.ignore_pound /\ parsed_pattern = CompiledNested /\ locale = "en-US"
       /\ call.params = BaseParams
        => outcome.text = <<"B", "o", " ", "h", "e", "r", " ", "2">>

\* offset 1 and value 21 render "20"
C5_Witness ==
    /\ Returned
    /\ ~call.ignore_pound
    /\ parsed_pattern = CompiledOffset
    /\ NIs(21)
    /\ outcome.text = <<"2", "0">>
    /\ \E i \in PluralEntries : Contains(outcome.log[i].plural, "#")

\* what the call that has returned returns with ignore_pound false
WithPound ==
    IF call.op = "Formatter::format"
    THEN Formatter_format(locale, initial_literals, parsed_pattern, FALSE, call.params)
    ELSE format_impl(locale, initial_literals, parsed_pattern, FALSE, call.params)

\* C6: with ignore_pound true, a Plural or Ordinal block pushes the text of
\* its branch unchanged and the assertion on '#' is not applied; the branches
\* chosen, the placeholder values and the other panics are those of the same
\* call with ignore_pound false.
C6_IgnoringPoundKeepsPound ==
    Returned /\ call.ignore_pound /\ parsed_pattern # <<>> =>
        LET SameEntry(e, f) ==
                /\ e.kind = f.kind /\ e.name = f.name /\ e.value = f.value
                /\ e.key = f.key /\ e.operand = f.operand /\ e.plural = f.plural
            Same(other) ==
                /\ outcome.err # NotAllPounds
                /\ outcome.err = (IF other.err = NotAllPounds THEN "" ELSE other.err)
                /\ outcome.literals = other.literals
                /\ Len(outcome.log) = Len(other.log)
                /\ \A i \in 1..Len(outcome.log) : SameEntry(outcome.log[i], other.log[i])
                /\ \A i \in PluralEntries : outcome.log[i].pushed = outcome.log[i].plural
                /\ PluralEntries = {} => outcome.message = other.message
                /\ \A i \in PluralEntries :
                       LET Filled(number) ==
                               Substituted(outcome.message, number)
                                   = Substituted(other.message, number)
                           Entry(e) == Filled(format_to_string(locale, e.num - e.offset))
                       IN Cardinality(PluralEntries) = 1 => Entry(outcome.log[i])
        IN Same(WithPound)

\* a pattern with a '#' outside every plural branch is rendered, '#' included
C6_Witness ==
    /\ Returned
    /\ call.ignore_pound
    /\ outcome.err = ""
    /\ outcome.text = <<"a", " ", "#", " ", "B", "o">>
    /\ WithPound.err = NotAllPounds

\* whether every Select, Plural and Ordinal block of a block tree, at any
\* depth, has an option "other"
RECURSIVE ChoicesHaveOther(_)
ChoicesHaveOther(blocks) ==
    \A i \in 1..Len(blocks) :
        blocks[i].typ \in {"Select", "Plural", "Ordinal"}
            => /\ OTHER_KEY \in Declared(blocks[i].map)
               /\ \A j \in 1..Len(blocks[i].map) :
                      blocks[i].map[j].key \in {ARGUMENT_NAME, ARGUMENT_OFFSET}
                          \/ ChoicesHaveOther(blocks[i].map[j].val)

\* the patterns with a block that has no option "other"
NoOtherPatterns ==
    {PatSelectNoOther, PatPluralNoOther, PatOrdinalNoOther, PatNestedNoOther}

\* C7: the format call that compiles a pattern with a Select, Plural or
\* Ordinal block without "other", at any depth and with any parameters,
\* panics and leaves no block tree; every block tree a compile leaves has
\* "other" in every Select, Plural and Ordinal block.
C7_MissingOtherFailsCompile ==
    [][/\ Compiling /\ pattern.text \in NoOtherPatterns
           => /\ outcome'.err \in {MissingOther(k) : k \in {"Select", "Plural", "Ordinal"}}
              /\ parsed_pattern' = <<>>
       /\ ChoicesHaveOther(parsed_pattern')]_vars

\* a compile has failed for a missing "other" in a Select
C7_Witness ==
    /\ Returned
    /\ ~pattern.some
    /\ outcome.err = MissingOther("Select")
    /\ parsed_pattern = <<>>
    /\ call.params = BaseParams

\* the number of '{' less the number of '}' among the first i characters
Depth(t, i) ==
    Cardinality({k \in 1..i : t[k] = "{"}) - Cardinality({k \in 1..i : t[k] = "}"})

\* C8: compiling panics with "No matching { for }" when the protected text
\* has a '}' with no '{' open before it, with "There are mismatched { or }
\* in the pattern" when it has none but ends with a '{' open, and with
\* neither otherwise; no block is classified first, so "{} {" reports
\* mismatched braces.
C8_BraceErrors ==
    [][Compiling =>
          LET Scanned(t) ==
                  /\ outcome'.err = NoMatchingOpen
                         <=> \E i \in 1..Len(t) : Depth(t, i) < 0
                  /\ outcome'.err = Mismatched
                         <=> /\ \A i \in 1..Len(t) : Depth(t, i) >= 0
                             /\ Depth(t, Len(t)) > 0
                  /\ pattern.text = PatUnmatchedOpen => outcome'.err = Mismatched
          IN Scanned(insert_placeholders(pattern.text).text)]_vars

\* a compile has failed with the error of mismatched braces
C8_Witness ==
    /\ Returned
    /\ outcome.err = Mismatched
    /\ parsed_pattern = <<>>

\* C9: a Placeholder whose parameter is a Text value renders the value
\* verbatim where the placeholder stands, whatever the value contains, also
\* inside a Plural branch.
C9_TextValueVerbatim ==
    Returned /\ ~call.ignore_pound /\ NameW \in DOMAIN call.params /\ locale = "en-US" =>
        LET Verbatim(w) ==
                w.t = "Str" =>
                    /\ parsed_pattern = CompiledSimple
                           => outcome.text = <<"i", "n", " ">> \o w.s \o <<" ", "o", "k", ".">>
                    /\ parsed_pattern = CompiledParamThenQuote
                           => outcome.text = w.s \o <<" ", "'">>
                    /\ parsed_pattern = CompiledPoundParam /\ NIs(2)
                           => outcome.text = <<"2", " ">> \o w.s \o <<" ", "2">>
        IN Verbatim(call.params[NameW])

\* the protected form of a character: lit tells whether it stands inside a
\* quoted span
Plain(s) == [i \in 1..Len(s) |-> [c |-> s[i], lit |-> FALSE]]
Quoted(s) == [i \in 1..Len(s) |-> [c |-> s[i].c, lit |-> TRUE]]

\* the first pass of quoting: every doubled quote, from the left, becomes one
\* quote that stands for itself
RECURSIVE UnquoteDoubled(_, _, _)
UnquoteDoubled(s, i, out) ==
    LET At(p) == IF p = 0 THEN out \o Plain(Tail_from(s, i))
                 ELSE UnquoteDoubled(s, p + 2,
                          out \o Plain(SubSeq(s, i, p - 1)) \o <<[c |-> "'", lit |-> TRUE]>>)
    IN At(FindFrom(s, i, <<"'", "'">>))

\* whether a quoted span starts at k: a quote, one of { } #, and a quote later
SpanAt(s, k) ==
    /\ ~s[k].lit /\ s[k].c = "'"
    /\ k + 1 <= Len(s)
    /\ ~s[k + 1].lit /\ s[k + 1].c \in {"{", "}", "#"}
    /\ \E q \in (k + 2)..Len(s) : ~s[q].lit /\ s[q].c = "'"

\* the second pass: every span 'X', from the left and up to the next quote,
\* becomes X standing for itself
RECURSIVE UnquoteSpans(_, _, _)
UnquoteSpans(s, i, out) ==
    LET Close(p, q) ==
            UnquoteSpans(s, q + 1,
                         out \o SubSeq(s, i, p - 1) \o Quoted(SubSeq(s, p + 1, q - 1)))
        At(p) == IF p = 0 THEN out \o Tail_from(s, i)
                 ELSE Close(p, MinOrZero({q \in (p + 2)..Len(s) :
                                              ~s[q].lit /\ s[q].c = "'"}))
    IN At(MinOrZero({k \in i..Len(s) : SpanAt(s, k)}))

Unquoted(s) == UnquoteSpans(UnquoteDoubled(s, 1, <<>>), 1, <<>>)

\* C10: a pattern whose text outside quoted spans has no '{', '}' or '#'
\* renders as itself with every doubled quote replaced by one quote and every
\* span 'X' starting with '{', '}' or '#' replaced by X; "a''{N}'b" with N = 5
\* renders "a'5'b" and "Anna''s house a'{''''b'" renders "Anna's house a{''b".
C10_LiteralRoundTrip ==
    [][Compiling =>
          LET Text(u) ==
                  (\A i \in 1..Len(u) : u[i].lit \/ u[i].c \notin {"{", "}", "#"})
                      => /\ outcome'.err = ""
                         /\ outcome'.text = [i \in 1..Len(u) |-> u[i].c]
          IN /\ Text(Unquoted(pattern.text))
             /\ pattern.text = PatQuoteBrace /\ call.params = LexParams
                    => outcome'.text = <<"a", "'", "5", "'", "b">>
             /\ pattern.text = PatQuotes
                    => outcome'.text = <<"A", "'", "s", " ", "a", "{", "'", "'", "b">>]_vars

\* every quote of s is followed neither by a quote nor by '{', '}' or '#'
LoneQuotes(s) ==
    \A k \in 1..Len(s) :
        s[k] = "'" => k = Len(s) \/ s[k + 1] \notin {"'", "{", "}", "#"}

CountChar(s, c) == Cardinality({k \in 1..Len(s) : s[k] = c})

\* C11: a single quote followed neither by '{', '}', '#' nor by a quote is
\* ordinary text and protects nothing: a pattern all of whose quotes are such
\* compiles to an empty literal table and every quote of it is in the output;
\* "A's 'has {N} c'." with N = 5 renders "A's 'has 5 c'.".
C11_LoneQuoteIsText ==
    [][Compiling /\ LoneQuotes(pattern.text) =>
          /\ initial_literals' = <<>>
          /\ outcome'.err = ""
                 => CountChar(outcome'.text, "'") = CountChar(pattern.text, "'")
          /\ pattern.text = PatSingleQuotes /\ call.params = LexParams
                 => /\ outcome'.err = ""
                    /\ outcome'.text = <<"A", "'", "s", " ", "'", "h", "a", "s", " ", "5",
                                         " ", "c", "'", ".">>]_vars

\* the pattern of the test has been rendered with both quotes around the value
C11_Witness ==
    /\ Returned
    /\ call.params = LexParams
    /\ initial_literals = <<>>
    /\ outcome.text = <<"A", "'", "s", " ", "'", "h", "a", "s", " ", "5", " ", "c", "'", ".">>

CompiledOrdinal == Compiled(PatOrdinal)

\* the argument name of an argument block
ArgumentOf(b) ==
    IF b.typ = "Simple" THEN b.value
    ELSE b.map[CHOOSE i \in 1..Len(b.map) : b.map[i].key = ARGUMENT_NAME].val[1].value

\* the text of a block sequence none of whose arguments has a value
AllUndefined(blocks) ==
    Join([i \in 1..Len(blocks) |->
             IF blocks[i].typ = "String" THEN blocks[i].value
             ELSE <<"U", "n", "d", "e", "f", "i", "n", "e", "d", " ", "p", "a", "r", "a",
                    "m", "e", "t", "e", "r", " ", "-", " ">> \o ArgumentOf(blocks[i])])

\* the call passed every argument but the one named
Missing(name) == call.params = Without(BaseParams, name)

Numeric(v) == v.t \in {"Int", "Dec"} \/ ParseF64(v.s).ok

\* the pattern is one Plural or Ordinal block of the argument N
OnePluralOfN ==
    /\ Len(parsed_pattern) = 1
    /\ parsed_pattern[1].typ \in {"Plural", "Ordinal"}
    /\ ArgumentOf(parsed_pattern[1]) = NameN

\* C13: a Plural or Ordinal block whose argument is present renders
\* "Invalid parameter - NAME" exactly when the runtime value is no Integer, no
\* Decimal and no Text that parses as a number; the Text "1.5" is rendered
\* through the selection of a branch.
C13_InvalidIffNotNumeric ==
    Returned /\ OnePluralOfN /\ NameN \in DOMAIN call.params =>
        LET Value(v) ==
                /\ (/\ outcome.err = ""
                    /\ outcome.text = <<"I", "n", "v", "a", "l", "i", "d", " ", "p", "a", "r",
                                        "a", "m", "e", "t", "e", "r", " ", "-", " ", "N">>)
                       <=> ~Numeric(v)
                /\ v = StrValue(<<"1", ".", "5">>) => PluralEntries # {}
        IN Value(call.params[NameN])

\* C14: a render of a compiled pattern returns a string whatever the
\* parameter map is: no call on a compiled pattern aborts, the abort on a '#'
\* left in the assembled text, which the specification declares fatal, aside.
C14_RenderReturnsString ==
    Returned /\ parsed_pattern # <<>> => outcome.err \in {"", NotAllPounds}

\* whether a block sequence has a '#' that no Plural or Ordinal block
\* encloses: in a text, in the name of a placeholder, or in a branch of a
\* Select block
RECURSIVE PoundOutsidePlural(_)
PoundOutsidePlural(blocks) ==
    \E i \in 1..Len(blocks) :
        LET Block(b) ==
                CASE b.typ \in {"String", "Simple"} -> Contains(b.value, "#")
                  [] b.typ = "Select" ->
                       \E j \in 1..Len(b.map) :
                           /\ b.map[j].key \notin {ARGUMENT_NAME, ARGUMENT_OFFSET}
                           /\ PoundOutsidePlural(b.map[j].val)
                  [] OTHER -> FALSE
        IN Block(blocks[i])

\* C15: a render that reaches the check of '#' aborts with "not all # were
\* replaced" exactly when ignore_pound is false and the assembled text has a
\* '#'; that happens only for a pattern with an unquoted '#' outside every
\* Plural and Ordinal block, so never because of a '#' of a quoted literal or
\* of a parameter value.
C15_ResidualPoundIsFatal ==
    [][Compiling =>
          LET Text(u) ==
                  outcome'.err = NotAllPounds
                      => /\ \E i \in 1..Len(u) : ~u[i].lit /\ u[i].c = "#"
                         /\ PoundOutsidePlural(parsed_pattern')
          IN /\ outcome'.err \in {"", NotAllPounds}
                    => (outcome'.err = NotAllPounds
                            <=> ~call.ignore_pound /\ Contains(outcome'.message, "#"))
             /\ Text(Unquoted(pattern.text))]_vars

\* a text without '{', '}' and '#' and without two quotes in a row
PlainText(s) ==
    /\ \A k \in 1..Len(s) : s[k] \notin {"{", "}", "#"}
    /\ \A k \in 1..(Len(s) - 1) : ~(s[k] = "'" /\ s[k + 1] = "'")

\* C16 as stated: a pattern with no '{' and no '}' outside quoted spans
\* renders as its own text.
C16_NoArgumentSyntaxIdentity ==
    [][Compiling =>
          LET Text(u) ==
                  (\A i \in 1..Len(u) : u[i].lit \/ u[i].c \notin {"{", "}"})
                      => /\ outcome'.err = ""
                         /\ outcome'.text = pattern.text
          IN Text(Unquoted(pattern.text))]_vars

\* C16, amended: a pattern with no '{', '}' or '#' and no doubled quote
\* renders as its own text, under format and under format_with_params; the
\* empty pattern renders the empty string.
C16_PlainTextIdentity ==
    [][Compiling /\ PlainText(pattern.text) =>
          /\ outcome'.err = ""
          /\ outcome'.text = pattern.text]_vars

\* format has returned a text of quotes, letters and a line break which no
\* step of the render changed
C16_Witness ==
    /\ Returned
    /\ call.op = "format"
    /\ parsed_pattern = <<StringBlock(<<"'", "a", "\n", "a">>)>>
    /\ outcome.text = <<"'", "a", "\n", "a">>

CompiledLiteral == Compiled(PatLiteral)

\* C17: once the pattern is compiled, no format call changes the block tree
\* or the literal table; a call works on a copy of the table that starts with
\* the compiled entries, and what it returns is the render of the unchanged
\* tree and table with its own parameters and flag, whatever calls came
\* before: "A's '{0} # r' and {N} c" keeps its one literal and renders it on
\* every call with N = 5.
C17_RenderLeavesCompiledState ==
    [][pc = "called" =>
          /\ ~pattern.some
                 => /\ parsed_pattern' = parsed_pattern
                    /\ initial_literals' = initial_literals
                    /\ outcome' = IF call.op = "Formatter::format"
                                  THEN Formatter_format(locale, initial_literals,
                                                        parsed_pattern, call.ignore_pound,
                                                        call.params)
                                  ELSE format_impl(locale, initial_literals, parsed_pattern,
                                                   call.ignore_pound, call.params)
          /\ outcome'.err = "" /\ parsed_pattern' # <<>>
                 => /\ Len(outcome'.literals) >= Len(initial_literals')
                    /\ SubSeq(outcome'.literals, 1, Len(initial_literals'))
                           = initial_literals'
          /\ parsed_pattern' = CompiledLiteral
                 => /\ initial_literals' = <<<<"{", "0", "}", " ", "#", " ", "r">>>>
                    /\ call.params = LexParams
                           => outcome'.text = <<"A", "'", "s", " ", "{", "0", "}", " ",
                                                "#", " ", "r", " ", "a", "n", "d", " ",
                                                "5", " ", "c">>]_vars

\* a call on a compiled pattern has returned: its copy of the table holds
\* the compiled literal and the value of N, the table itself the literal only
C17_Witness ==
    /\ Returned
    /\ parsed_pattern = CompiledLiteral
    /\ call.params = LexParams
    /\ initial_literals = <<<<"{", "0", "}", " ", "#", " ", "r">>>>
    /\ outcome.literals = <<<<"{", "0", "}", " ", "#", " ", "r">>, <<"5">>>>

\* the two values of the current call are an Integer and a Decimal, in
\* either order
IntAndDec == {call.params[1].t, call.params[2].t} = {"Int", "Dec"}

\* C18: hashing agrees with equality across representations: an Integer and
\* a Decimal that compare equal, in either order, have equal hashes, and a
\* table whose key is one of two numerically equal values, one an Integer and
\* one a Decimal, is found by a lookup with the other.
C18_HashAgreesWithEq ==
    /\ Returned /\ call.op = "eq" /\ IntAndDec =>
           LET Test(r) == /\ r.ab => r.hash_a = r.hash_b
                          /\ r.ba => r.hash_b = r.hash_a
           IN Test(outcome.log[1])
    /\ Returned /\ call.op = "get" /\ IntAndDec
           /\ SameValue(call.params[1], call.params[2])
           => outcome.log[1].found

\* the key 1 has been looked up with the Decimal 1.0 and found
C18_Witness ==
    /\ Returned
    /\ call.op = "get"
    /\ call.params = <<IntValue(1), DecValue(10)>>
    /\ outcome.log[1].found

\* C19: an Integer n equals a Decimal x exactly when x has no fractional part
\* and is numerically n, so a Decimal beyond the i64 range equals no Integer;
\* equality is symmetric, and a Text equals only a Text of the same string.
C19_EqIsNumericEquality ==
    Returned /\ call.op = "eq" =>
        LET Test(r, a, b) ==
                /\ r.ab = SameValue(a, b)
                /\ r.ab = r.ba
                /\ "Str" \in {a.t, b.t} => (r.ab <=> a.t = b.t /\ a.s = b.s)
        IN Test(outcome.log[1], call.params[1], call.params[2])

\* s without the whitespace at its two ends
Trimmed(s) ==
    LET Solid == {k \in 1..Len(s) : ~IsSpace(s[k])}
    IN IF Solid = {} THEN <<>>
       ELSE SubSeq(s, CHOOSE k \in Solid : \A j \in Solid : k <= j,
                   CHOOSE k \in Solid : \A j \in Solid : k >= j)

\* whether s starts with a name, a comma, the keyword and a comma, with any
\* whitespace around the name and the keyword
HasHeader(s, keyword) ==
    \E c \in 1..Len(s), d \in 1..Len(s) :
        /\ c < d /\ s[c] = "," /\ s[d] = ","
        /\ Trimmed(SubSeq(s, 1, c - 1)) # <<>>
        /\ \A k \in 1..Len(Trimmed(SubSeq(s, 1, c - 1))) :
               IsWord(Trimmed(SubSeq(s, 1, c - 1))[k])
        /\ Trimmed(SubSeq(s, c + 1, d - 1)) = keyword

\* the kind of a segment by the order of the headers
Classified(s) ==
    IF HasHeader(s, <<"p", "l", "u", "r", "a", "l">>) THEN "Plural"
    ELSE IF HasHeader(s, <<"s", "e", "l", "e", "c", "t", "o", "r", "d", "i", "n", "a",
                           "l">>) THEN "Ordinal"
    ELSE IF HasHeader(s, <<"s", "e", "l", "e", "c", "t">>) THEN "Select"
    ELSE IF \E k \in 1..Len(s) : IsWord(s[k]) /\ \A j \in 1..(k - 1) : IsSpace(s[j])
    THEN "Simple"
    ELSE "Unknown"

\* the pattern is one block and has no quote: its first '{' closes at its end
OneBlock(t) ==
    /\ Len(t) >= 2
    /\ t[1] = "{"
    /\ \A k \in 1..(Len(t) - 1) : Depth(t, k) >= 1
    /\ Depth(t, Len(t)) = 0
    /\ \A k \in 1..Len(t) : t[k] # "'"

\* C20: a block segment is a Plural block if it starts with name , plural ,
\* else an Ordinal block if it starts with name , selectordinal , else a
\* Select block if it starts with name , select , else a Placeholder of the
\* whole segment if its first character after whitespace is a word character;
\* any other segment, the empty one of "{}" included, makes the compile fail
\* with "unknown block type".  (A segment taken for a Choice block compiles
\* to that block or fails in the parser of that block.)
C20_BlockClassification ==
    [][Compiling /\ OneBlock(pattern.text) =>
          LET Kind(seg, c) ==
                  /\ c = "Unknown" <=> outcome'.err = UnknownBlockType
                  /\ c = "Simple" => parsed_pattern' = <<SimpleBlock(seg)>>
                  /\ c \in {"Plural", "Ordinal", "Select"}
                         => \/ outcome'.err \in {MissingElement(c), MissingOther(c)}
                            \/ c = "Plural" /\ outcome'.err = OffsetUnwrap
                            \/ /\ Len(parsed_pattern') = 1
                               /\ parsed_pattern'[1].typ = c
              Segment(seg) == Kind(seg, Classified(seg))
          IN Segment(SubSeq(pattern.text, 2, Len(pattern.text) - 1))]_vars

\* a segment with the header of selectordinal, which starts with select, has
\* been compiled to an Ordinal block
C20_Witness ==
    /\ Returned
    /\ Len(parsed_pattern) = 1
    /\ parsed_pattern[1].typ = "Ordinal"
    /\ outcome.err = ""

\* the header regex of a kind of Choice block
HeaderOf(seg, kind) ==
    CASE kind = "Select" -> SELECT_BLOCK_RE(seg)
      [] kind = "Plural" -> PLURAL_BLOCK_RE(seg)
      [] kind = "Ordinal" -> ORDINAL_BLOCK_RE(seg)

\* the key segments of a Choice block as they are written: the segments
\* before the option blocks in the text after the header
RawKeys(seg, kind) ==
    LET Keys(parts) == {parts[i].value : i \in {j \in 1..Len(parts) : j % 2 = 1}}
    IN Keys(extract_parts(Tail_from(seg, HeaderOf(seg, kind).end)).val)

\* a key token without its surrounding whitespace and its leading '=', as a
\* number if it parses as one and as a text otherwise
NormalKey(key) ==
    LET Value(t) == KeyValue(IF t # <<>> /\ Head(t) = "=" THEN Tail(t) ELSE t)
    IN Value(Trimmed(key))

\* the segment of a one-block pattern
SegmentOf(t) == SubSeq(t, 2, Len(t) - 1)

\* C21: in every kind of Choice block, Select, Plural and Ordinal alike, an
\* option key is stored as its text without the surrounding whitespace and
\* without a leading '=', as a number if that parses as one and as a text
\* otherwise.
C21_SameKeyNormalization ==
    [][/\ Compiling /\ OneBlock(pattern.text)
       /\ Len(parsed_pattern') = 1
       /\ parsed_pattern'[1].typ \in {"Select", "Plural", "Ordinal"}
       => Declared(parsed_pattern'[1].map)
              = {NormalKey(k) : k \in RawKeys(SegmentOf(pattern.text),
                                              parsed_pattern'[1].typ)}]_vars

\* the same for the Plural and Ordinal blocks only
C21_PluralKeyNormalization ==
    [][/\ Compiling /\ OneBlock(pattern.text)
       /\ Len(parsed_pattern') = 1
       /\ parsed_pattern'[1].typ \in {"Plural", "Ordinal"}
       => Declared(parsed_pattern'[1].map)
              = {NormalKey(k) : k \in RawKeys(SegmentOf(pattern.text),
                                              parsed_pattern'[1].typ)}]_vars

\* the text of a segment after the second comma, which ends a header, without
\* the whitespace at its start
AfterHeader(seg) ==
    LET Commas == {k \in 1..Len(seg) : seg[k] = ","}
        Second == CHOOSE d \in Commas : Cardinality({c \in Commas : c < d}) = 1
        Solid == {k \in (Second + 1)..Len(seg) : ~IsSpace(seg[k])}
    IN IF Solid = {} THEN <<>>
       ELSE SubSeq(seg, CHOOSE k \in Solid : \A j \in Solid : k <= j, Len(seg))

\* the N of an "offset:N" at the start of r, or 0 when r starts with no such
\* clause
ClauseOffset(r) ==
    LET Runs == {e \in 8..Len(r) : \A k \in 8..e : IsDigit(r[k])}
    IN IF Len(r) >= 8 /\ SubSeq(r, 1, 7) = <<"o", "f", "f", "s", "e", "t", ":">>
          /\ Runs # {}
       THEN DigitsValue(SubSeq(r, 8, CHOOSE e \in Runs : \A k \in Runs : k <= e))
       ELSE 0

\* no option of the block is written with one of the two reserved names
NoReservedKey(seg, kind) ==
    \A k \in RawKeys(seg, kind) : NormalKey(k) \notin {ARGUMENT_NAME, ARGUMENT_OFFSET}

\* the offset an option table holds: a Select has no entry for it
OffsetOf(map) ==
    IF MapIndex(map, ARGUMENT_OFFSET) = 0 THEN <<"0">>
    ELSE FirstString(map, ARGUMENT_OFFSET).value

MarkerFree ==
    \A x \in DOMAIN call.params :
        call.params[x].t = "Str" => ~Contains(call.params[x].s, FDDF)

\* m with every token replaced, where it stands, by the text of its own
\* entry of the table, and the tokens inside that text likewise; p is where
\* the first token starts and e where its digits end
RECURSIVE Expanded(_, _)
Expanded(m, literals) ==
    LET Entry(idx) == IF idx < Len(literals) THEN Expanded(literals[idx + 1], literals)
                      ELSE placeholder(idx)
        Digits(p, e) == SubSeq(m, 1, p - 1) \o Entry(DigitsValue(SubSeq(m, p + 3, e - 1)))
                        \o Expanded(Tail_from(m, e + 1), literals)
        At(p) == IF p = 0 THEN m ELSE Digits(p, SkipDigits(m, p + 3))
    IN At(FindFrom(m, 1, <<"_", FDDF, "_">>))

\* C23: when neither the pattern nor a parameter value contains the marker
\* code point, the string a render returns is the joined message with every
\* token replaced, at its own position, by the text of its entry of the
\* working literal table (a protected literal or a placeholder value), the
\* tokens inside a literal entry included, and contains no token.
C23_LiteralsRestoredInPlace ==
    Returned /\ outcome.err = "" /\ parsed_pattern # <<>> /\ MarkerFree =>
        /\ outcome.text = Expanded(outcome.message, outcome.literals)
        /\ ~Contains(outcome.text, FDDF)

\* a literal that holds the tokens of two '' and a value have been restored
C23_Witness ==
    /\ Returned
    /\ parsed_pattern = Compiled(PatQuoteInLiteral)
    /\ Len(outcome.literals) = 5
    /\ Contains(outcome.literals[4], FDDF)
    /\ outcome.text = <<"I", "t", "'", "s", " ", "{", "'", "{", "W", "}", "'", "}", " ",
                        "B", "o">>

\* a segment as it stands in the input: a Block in its braces
Written(part) ==
    IF part.typ = "Block" THEN <<"{">> \o part.value \o <<"}">> ELSE part.value

\* where segment i of parts starts in the text the segments re-join to
RECURSIVE StartOf(_, _)
StartOf(parts, i) ==
    IF i = 1 THEN 1 ELSE StartOf(parts, i - 1) + Len(Written(parts[i - 1]))

\* every '{' of t has its '}' and no '}' comes before its '{'
Balanced(t) == Depth(t, Len(t)) = 0 /\ \A k \in 1..Len(t) : Depth(t, k) >= 0

\* parts splits t at nesting depth 0 only: the segments re-join to t, a Text
\* segment is a non-empty run without braces that ends at a Block or at the
\* end, and a Block segment stands between a '{' that raises the depth from
\* 0 to 1 and the first '}' that returns it to 0
SplitAtDepth0(t, parts) ==
    /\ Join([i \in 1..Len(parts) |-> Written(parts[i])]) = t
    /\ \A i \in 1..Len(parts) :
           LET Block(o, c) ==
                   /\ Depth(t, o) = 1
                   /\ Depth(t, c) = 0
                   /\ \A k \in o..(c - 1) : Depth(t, k) >= 1
               Text(v) ==
                   /\ v # <<>>
                   /\ \A k \in 1..Len(v) : v[k] \notin {"{", "}"}
                   /\ i < Len(parts) => parts[i + 1].typ = "Block"
           IN IF parts[i].typ = "Block"
              THEN Block(StartOf(parts, i), StartOf(parts, i) + Len(parts[i].value) + 1)
              ELSE Text(parts[i].value)

\* the blocks a compile makes stand for the segments, one for one
BlocksOf(parts, blocks) ==
    /\ Len(blocks) = Len(parts)
    /\ \A i \in 1..Len(parts) :
           /\ parts[i].typ = "String" <=> blocks[i].typ = "String"
           /\ blocks[i].typ \in {"String", "Simple"} => blocks[i].value = parts[i].value

\* C24: on a brace-balanced input the tokenizer splits at nesting depth 0
\* only: a Block segment is the text strictly between a '{' that raises the
\* depth from 0 to 1 and the '}' that returns it to 0, a Text segment is a
\* maximal non-empty run outside all braces, the segments come in input
\* order and re-join, each Block in its braces, to the input; the blocks of a
\* compiled pattern are made of these segments.
C24_SplitsAtDepthZero ==
    [][Compiling =>
          LET Parts(t, parts) ==
                  Balanced(t) =>
                      /\ parts.err = ""
                      /\ SplitAtDepth0(t, parts.val)
                      /\ parsed_pattern' # <<>> => BlocksOf(parts.val, parsed_pattern')
              Scanned(t) == Parts(t, extract_parts(t))
          IN Scanned(insert_placeholders(pattern.text).text)]_vars

\* a pattern of two Select blocks, each followed by text, has been compiled
\* to four blocks
C24_Witness ==
    /\ Returned
    /\ parsed_pattern = CompiledSelect
    /\ Len(parsed_pattern) = 4
    /\ parsed_pattern[1].typ = "Select"
    /\ parsed_pattern[2] = StringBlock(<<" ", "b", " ">>)
    /\ parsed_pattern[4] = StringBlock(<<".">>)
    /\ call.op = "format"

\* C25: the entries argumentName and argumentOffset of an options table are
\* not selectable: a Select of a pattern that declares no option of such a
\* name, rendered with the Text "argumentName" or "argumentOffset" as its
\* runtime value, takes the "other" branch and does not render the argument
\* name.
C25_SyntheticKeysNotSelectable ==
    /\ Returned /\ parsed_pattern \in {CompiledSelect, CompiledNested}
           => \A i \in SelectEntries :
                  LET Entry(e) ==
                          call.params[e.name] \in {ARGUMENT_NAME, ARGUMENT_OFFSET}
                              => e.key = OTHER_KEY
                  IN Entry(outcome.log[i])
    /\ Returned /\ parsed_pattern = CompiledSelect /\ NameG \in DOMAIN call.params
           /\ call.params[NameG] \in {ARGUMENT_NAME, ARGUMENT_OFFSET}
           => outcome.text = <<"T", "h", "e", "i", "r", " ", "b", " ", "g", "r", "e", "e",
                               "n", ".">>

\* the same for the value "argumentOffset" only, of which a Select has no
\* entry
C25_OffsetNameNotSelectable ==
    Returned /\ parsed_pattern = CompiledSelect /\ NameG \in DOMAIN call.params
        /\ call.params[NameG] = ARGUMENT_OFFSET
        => outcome.text = <<"T", "h", "e", "i", "r", " ", "b", " ", "g", "r", "e", "e",
                            "n", ".">>

\* C26: the argument name and the offset a Choice block uses at render time
\* are those of its header, whatever option keys the pattern declares: with
\* an option spelled argumentName or argumentOffset the block still looks up
\* the header's argument, its offset is still the header's, and no render of
\* a compiled pattern produces "Invalid offset - X".
C26_HeaderArgumentAndOffset ==
    /\ Returned /\ outcome.err = ""
           => \A k \in 1..Len(outcome.text) : ~StartsWithAt(outcome.text, k, InvalidOffset)
    /\ Returned /\ parsed_pattern = Compiled(PatOffsetKey) /\ NIs(2)
           => outcome.text = <<"2", " ", "b">>
    /\ Returned /\ parsed_pattern = Compiled(PatNameKey) /\ Missing(NameN)
           => outcome.text = UndefinedParameter \o NameN
    /\ Returned /\ parsed_pattern \in {Compiled(PatOffsetKey), Compiled(PatNameKey)}
           => \A i \in PluralEntries : outcome.log[i].name = NameN /\ outcome.log[i].offset = 0

\* the part of C26 on the patterns whose options do not use the two names
C26_NoInvalidOffsetOtherwise ==
    Returned /\ outcome.err = ""
        /\ parsed_pattern \notin {Compiled(PatOffsetKey), Compiled(PatNameKey)}
        => \A k \in 1..Len(outcome.text) : ~StartsWithAt(outcome.text, k, InvalidOffset)

\* the first format call of this MessageFormat aborted while compiling: the
\* pattern is taken, literals are protected and there is no block, which no
\* compile that returns leaves (protected text is never empty)
CompileFailed == ~pattern.some /\ parsed_pattern = <<>> /\ initial_literals # <<>>

\* C27: a MessageFormat is compiled at most once, on its first format call,
\* and a pattern that failed to compile stays unusable: every later format
\* call on the instance fails too and none returns a string.
C27_FailedCompileStaysFailed ==
    [][/\ pc = "called" /\ ~pattern.some
           => /\ parsed_pattern' = parsed_pattern
              /\ initial_literals' = initial_literals
              /\ ~pattern'.some
       /\ pc = "called" /\ CompileFailed => outcome'.err # ""]_vars

\* the part of C27 on compiling at most once
C27_CompiledAtMostOnce ==
    [][pc = "called" /\ ~pattern.some
           => /\ parsed_pattern' = parsed_pattern
              /\ initial_literals' = initial_literals
              /\ ~pattern'.some]_vars

\* the segments of the body of a Choice block: of the text after the header
BodyParts(seg, kind) == extract_parts(Tail_from(seg, HeaderOf(seg, kind).end)).val

\* the segments are key, Block, key, Block, ...: a Text segment at every odd
\* place and a Block segment at every even one, in pairs
StrictAlternation(parts) ==
    /\ Len(parts) % 2 = 0
    /\ \A i \in 1..Len(parts) : parts[i].typ = (IF i % 2 = 1 THEN "String" ELSE "Block")

\* C28: the body of a Choice is accepted only as a strict alternation key,
\* Block, key, Block, ...; a key that is the last segment, such as the
\* whitespace after the final option block, makes the compile fail with
\* "missing or invalid ... element".
C28_StrictAlternation ==
    [][Compiling /\ OneBlock(pattern.text)
           /\ Classified(SegmentOf(pattern.text)) \in {"Select", "Plural", "Ordinal"} =>
          LET Body(kind, parts) ==
                  /\ parsed_pattern' # <<>> => StrictAlternation(parts)
                  /\ parts # <<>> /\ parts[Len(parts)].typ = "String"
                         => outcome'.err = MissingElement(kind)
              Kind(kind) == Body(kind, BodyParts(SegmentOf(pattern.text), kind))
          IN Kind(Classified(SegmentOf(pattern.text)))]_vars

\* the part of C28 on a last segment that is text
C28_TrailingKeyFails ==
    [][Compiling /\ OneBlock(pattern.text)
           /\ Classified(SegmentOf(pattern.text)) \in {"Select", "Plural", "Ordinal"} =>
          LET Body(kind, parts) ==
                  parts # <<>> /\ parts[Len(parts)].typ = "String"
                      => outcome'.err = MissingElement(kind) /\ parsed_pattern' = <<>>
              Kind(kind) == Body(kind, BodyParts(SegmentOf(pattern.text), kind))
          IN Kind(Classified(SegmentOf(pattern.text)))]_vars

\* the argument W of the current call is an integer
WIsInt == NameW \in DOMAIN call.params /\ call.params[NameW].t = "Int"

\* the one log entry of a Plural block of W holds the exact difference of
\* the value w and the offset: as the operand and in place of every '#'
ExactDiff(o, w) ==
    /\ o.err = ""
    /\ Len(o.log) = 1
    /\ LET Entry(e) ==
               /\ e.operand = Abs(10 * w - e.offset)
               /\ e.pushed = Substituted(e.plural, format_to_string("en-US", 10 * w - e.offset))
       IN Entry(o.log[1])

\* C29: for every Integer value in the i64 range and every offset the syntax
\* accepts, compiling and rendering a Plural block neither overflows nor
\* aborts: the offset is stored as written, value - offset is computed
\* exactly and its absolute value is passed to the plural rules.
C29_NoOverflowNoAbort ==
    [][/\ Compiling /\ pattern.text = PatBigOffset
           => /\ Len(parsed_pattern') = 1
              /\ OffsetOf(parsed_pattern'[1].map) = <<"2", "0", "0">>
       /\ pc = "called" /\ WIsInt
              /\ parsed_pattern' \in {Compiled(PatPluralW), Compiled(PatOffsetW)}
           => ExactDiff(outcome', call.params[NameW].n)]_vars

\* the same where the offset fits an i32 and neither the value nor the
\* difference is the least i64 or below
C29_ExactWithinRange ==
    [][pc = "called" /\ WIsInt
              /\ parsed_pattern' \in {Compiled(PatPluralW), Compiled(PatOffsetW)}
              /\ call.params[NameW].n - DigitsValue(OffsetOf(parsed_pattern'[1].map)) > I64Min
           => ExactDiff(outcome', call.params[NameW].n)]_vars

\* C30: a Placeholder is looked up in the parameter map under the full text
\* of its segment as written, neither trimmed nor checked to be one
\* identifier: "{ W }" looks up " W " and "{W x}" looks up "W x", and with
\* only N, G and W supplied, or nothing, each renders "Undefined parameter - "
\* and its segment.
C30_PlaceholderNameAsWritten ==
    Returned /\ parsed_pattern = Compiled(PatSpacedName) =>
        /\ parsed_pattern = <<[typ |-> "Simple", value |-> <<" ", "W", " ">>, map |-> <<>>],
                              [typ |-> "String", value |-> <<" ", "a", "n", "d", " ">>,
                               map |-> <<>>],
                              [typ |-> "Simple", value |-> <<"W", " ", "x">>, map |-> <<>>]>>
        /\ outcome.err = ""
        /\ outcome.text =
               <<"U", "n", "d", "e", "f", "i", "n", "e", "d", " ", "p", "a", "r", "a",
                 "m", "e", "t", "e", "r", " ", "-", " ", " ", "W", " ", " ", "a", "n",
                 "d", " ", "U", "n", "d", "e", "f", "i", "n", "e", "d", " ", "p", "a",
                 "r", "a", "m", "e", "t", "e", "r", " ", "-", " ", "W", " ", "x">>

\* "{ W } and {W x}" has been rendered with W supplied
C30_Witness ==
    /\ Returned
    /\ parsed_pattern = Compiled(PatSpacedName)
    /\ call.params = BaseParams
    /\ Len(outcome.text) = 55
    /\ SubSeq(outcome.text, 1, 25) = UndefinedParameter \o <<" ", "W", " ">>

====
